---- MODULE Spec2Model ----
(***************************************************************************)
(* Rack / pillar placement and layout optimisation engine.                 *)
(*                                                                         *)
(* The state is one DataCenterGrid (occupancy array and element lists)     *)
(* together with the RackLayoutOptimizer's metrics map.  Every public      *)
(* operation of PillarManager, RackManager and RackLayoutOptimizer is one  *)
(* action.  Cells are addressed <<x, y>>; the code's numpy array is        *)
(* indexed [y, x].  An element's real-world fields (x, y, width, height)   *)
(* are its cell fields times the cell size and are not carried.  A rack    *)
(* identifier 'R<k>' is carried as the number k.                           *)
(***************************************************************************)
EXTENDS Integers, Sequences, FiniteSets, TLC

VARIABLES grid_size_mm, grid_width, grid_length, grid, pillars, racks, walls,
          layout_metrics, last, steps

vars == <<grid_size_mm, grid_width, grid_length, grid, pillars, racks, walls,
          layout_metrics, last, steps>>

(***************************************************************************)
(* Program constants                                                       *)
(***************************************************************************)
EMPTY == 0
PILLAR == 1
RACK == 2
WALL == 3

RACK_WIDTH_CELLS == 2
RACK_HEIGHT_CELLS == 1

\* grid_size_m default (0.6 m), in millimetres
GRID_SIZE_MM == 600

(***************************************************************************)
(* Bounds of the model                                                     *)
(***************************************************************************)
\* the room of the optimizer runs, in cells
MaxGridWidth == 10
MaxGridLength == 8
\* operations in one run of the optimizer model
MaxSteps == 3
\* requested rack counts
MaxRacks == 3
\* candidates in a list handed to place_racks directly
MaxCands == 2
\* pillars per axis in place_pillars_by_count
MaxPillarCount == 3
\* the small room of the placement model, in cells, and its operations
PlaceGridWidth == 4
PlaceGridLength == 2
MaxPlaceSteps == 2
MaxPlaceCands == 3

(***************************************************************************)
(* Python arithmetic                                                       *)
(***************************************************************************)
\* a // b : floor division, either sign of divisor
PyFloorDiv(a, b) == IF b > 0 THEN a \div b ELSE (0 - a) \div (0 - b)

\* int(a / b) for b > 0 : truncation toward zero
PyTrunc(a, b) == IF a >= 0 THEN a \div b ELSE 0 - ((0 - a) \div b)

Min(a, b) == IF a <= b THEN a ELSE b
Max(a, b) == IF a >= b THEN a ELSE b

\* range(n)
Range(n) == 0 .. (n - 1)

(***************************************************************************)
(* DataCenterGrid                                                          *)
(***************************************************************************)
Cells(w, l) == (0 .. (w - 1)) \X (0 .. (l - 1))

\* the cells range(grid_x, grid_x+width) x range(grid_y, grid_y+height)
Footprint(gx, gy, wc, hc) == (gx .. (gx + wc - 1)) \X (gy .. (gy + hc - 1))

is_within_grid(gx, gy, wc, hc) ==
    ~ (gx < 0 \/ gy < 0 \/ gx + wc > grid_width \/ gy + hc > grid_length)

\* is_area_empty without the occupancy loop
is_area_empty_bounds_only(g, gx, gy, wc, hc) == is_within_grid(gx, gy, wc, hc)

is_area_empty(g, gx, gy, wc, hc) ==
    IF ~ is_within_grid(gx, gy, wc, hc)
    THEN FALSE
    ELSE \A c \in Footprint(gx, gy, wc, hc) : g[c] = EMPTY

NoElement == [type |-> -1]

Element(gx, gy, wc, hc, t) ==
    [grid_x |-> gx, grid_y |-> gy, width_cells |-> wc, height_cells |-> hc,
     type |-> t]

\* the marking loops of place_element: "for y in range(grid_y, grid_y +
\* height_cells): for x in range(grid_x, grid_x + width_cells)", from the
\* k-th visited cell on
RECURSIVE MarkCells(_, _, _, _, _, _, _)
MarkCells(g, gx, gy, wc, hc, t, k) ==
    IF k >= wc * hc THEN g
    ELSE MarkCells([g EXCEPT ![<<gx + (k % wc), gy + (k \div wc)>>] = t],
                   gx, gy, wc, hc, t, k + 1)

\* place_element that checks the bounds only and overwrites occupied cells
place_element_overwriting(g, gx, gy, wc, hc, t) ==
    IF ~ is_within_grid(gx, gy, wc, hc)
    THEN [grid |-> g, element |-> NoElement]
    ELSE [grid |-> MarkCells(g, gx, gy, wc, hc, t, 0),
          element |-> Element(gx, gy, wc, hc, t)]

\* place_element on occupancy g: the new occupancy and the returned element
\* (NoElement stands for None)
place_element(g, gx, gy, wc, hc, t) ==
    IF ~ is_area_empty(g, gx, gy, wc, hc)
    THEN [grid |-> g, element |-> NoElement]
    ELSE [grid |-> MarkCells(g, gx, gy, wc, hc, t, 0),
          element |-> Element(gx, gy, wc, hc, t)]

\* int(np.ceil(a / b)), b # 0
CeilDiv(a, b) == 0 - PyFloorDiv(0 - a, b)

\* int(a / b), b # 0 : truncation toward zero
IntDiv(a, b) == IF b > 0 THEN PyTrunc(a, b) ELSE PyTrunc(0 - a, 0 - b)

\* DataCenterGrid.__init__ with lengths in millimetres: the division raises
\* ZeroDivisionError for a zero cell size and np.zeros raises ValueError
\* for a negative dimension; nothing else is checked
DataCenterGrid(width_mm, length_mm, size_mm) ==
    IF size_mm = 0
    THEN [raised |-> TRUE, grid_width |-> 0, grid_length |-> 0]
    ELSE IF CeilDiv(width_mm, size_mm) < 0 \/ CeilDiv(length_mm, size_mm) < 0
    THEN [raised |-> TRUE, grid_width |-> 0, grid_length |-> 0]
    ELSE [raised |-> FALSE, grid_width |-> CeilDiv(width_mm, size_mm),
          grid_length |-> CeilDiv(length_mm, size_mm)]

\* get_grid_coordinates without the clamping to the grid bounds
get_grid_coordinates_unclamped(x_mm, y_mm) ==
    <<IntDiv(x_mm, grid_size_mm), IntDiv(y_mm, grid_size_mm)>>

get_grid_coordinates(x_mm, y_mm) ==
    <<Max(0, Min(IntDiv(x_mm, grid_size_mm), grid_width - 1)),
      Max(0, Min(IntDiv(y_mm, grid_size_mm), grid_length - 1))>>

get_real_coordinates(gx, gy) == <<gx * grid_size_mm, gy * grid_size_mm>>

(***************************************************************************)
(* PillarManager                                                           *)
(***************************************************************************)
\* round(a / b), a >= 0, b > 0: Python 3 rounds halves to even
PyRound(a, b) ==
    LET q == a \div b
        r == a % b
    IN  IF 2 * r < b THEN q
        ELSE IF 2 * r > b THEN q + 1
        ELSE IF q % 2 = 0 THEN q ELSE q + 1

\* int(round(mm_to_meters(mm) / grid_size_m))
MmToCells(mm) == PyRound(mm, GRID_SIZE_MM)

\* int(round(ft_to_meters(ft) / grid_size_m)), FT_TO_M = 0.3048
FtToCells(ft) == PyRound(ft * 3048, GRID_SIZE_MM * 10)

\* place_pillar on occupancy g and pillar list ps
place_pillar(g, ps, gx, gy, gw, gh) ==
    LET r == place_element(g, gx, gy, gw, gh, PILLAR)
    IN  IF r.element # NoElement
        THEN [grid |-> r.grid, pillars |-> Append(ps, r.element),
              element |-> r.element]
        ELSE [grid |-> r.grid, pillars |-> ps, element |-> NoElement]

\* the loop "for grid_x, grid_y in pillar_positions: place_pillar(...)"
RECURSIVE PlacePillarLoop(_, _, _, _, _, _, _)
PlacePillarLoop(g, ps, placed, positions, i, gw, gh) ==
    IF i > Len(positions)
    THEN [grid |-> g, pillars |-> ps, placed |-> placed]
    ELSE LET r == place_pillar(g, ps, positions[i][1], positions[i][2], gw, gh)
         IN  IF r.element # NoElement
             THEN PlacePillarLoop(r.grid, r.pillars, Append(placed, r.element),
                                  positions, i + 1, gw, gh)
             ELSE PlacePillarLoop(g, ps, placed, positions, i + 1, gw, gh)

\* candidate positions of place_pillars_with_exact_spacing, row-major (y outer)
ExactSpacingPositions(pw, ph, xs, ys) ==
    LET x_pillars == Max(2, PyFloorDiv(grid_width, xs) + 1)
        y_pillars == Max(2, PyFloorDiv(grid_length, ys) + 1)
        gx(x_idx) == IF x_idx = 0 THEN 0
                     ELSE IF x_idx = x_pillars - 1 THEN grid_width - pw
                     ELSE x_idx * xs
        gy(y_idx) == IF y_idx = 0 THEN 0
                     ELSE IF y_idx = y_pillars - 1 THEN grid_length - ph
                     ELSE y_idx * ys
    IN  [k \in 1 .. (x_pillars * y_pillars) |->
            <<gx((k - 1) % x_pillars), gy((k - 1) \div x_pillars)>>]

\* candidate positions of place_pillars_by_count, row-major (y outer)
ByCountPositions(pw, ph, nx, ny) ==
    LET xs == IF nx > 1 THEN PyFloorDiv(grid_width, nx - 1) ELSE grid_width
        ys == IF ny > 1 THEN PyFloorDiv(grid_length, ny - 1) ELSE grid_length
        gx(x_idx) == IF x_idx = 0 THEN 0
                     ELSE IF nx > 1
                     THEN (IF x_idx < nx - 1 THEN x_idx * xs ELSE grid_width - pw)
                     ELSE PyFloorDiv(grid_width - pw, 2)
        gy(y_idx) == IF y_idx = 0 THEN 0
                     ELSE IF ny > 1
                     THEN (IF y_idx < ny - 1 THEN y_idx * ys ELSE grid_length - ph)
                     ELSE PyFloorDiv(grid_length - ph, 2)
    IN  [k \in 1 .. (nx * ny) |-> <<gx((k - 1) % nx), gy((k - 1) \div nx)>>]

\* place_pillars_with_exact_spacing: the pillar list is reset (the occupancy
\* array is not touched), then a zero spacing raises ZeroDivisionError
place_pillars_with_exact_spacing(g, pillar_width_mm, pillar_height_mm, x_spacing_ft, y_spacing_ft) ==
    LET pillar_grid_width == MmToCells(pillar_width_mm)
        pillar_grid_height == MmToCells(pillar_height_mm)
        x_spacing_cells == FtToCells(x_spacing_ft)
        y_spacing_cells == FtToCells(y_spacing_ft)
        r == PlacePillarLoop(g, <<>>, <<>>,
                 ExactSpacingPositions(pillar_grid_width, pillar_grid_height,
                                       x_spacing_cells, y_spacing_cells),
                 1, pillar_grid_width, pillar_grid_height)
    IN  IF x_spacing_cells = 0 \/ y_spacing_cells = 0
        THEN [grid |-> g, pillars |-> <<>>, placed |-> <<>>, raised |-> TRUE]
        ELSE [grid |-> r.grid, pillars |-> r.pillars, placed |-> r.placed,
              raised |-> FALSE]

\* place_pillars_by_count: the pillar list is reset (the occupancy array is
\* not touched), then every candidate is tried
place_pillars_by_count(g, pillar_width_mm, pillar_height_mm, num_pillars_x, num_pillars_y) ==
    LET pillar_grid_width == MmToCells(pillar_width_mm)
        pillar_grid_height == MmToCells(pillar_height_mm)
    IN  PlacePillarLoop(g, <<>>, <<>>,
            ByCountPositions(pillar_grid_width, pillar_grid_height,
                             num_pillars_x, num_pillars_y),
            1, pillar_grid_width, pillar_grid_height)

(***************************************************************************)
(* RackManager.place_racks                                                 *)
(***************************************************************************)
\* the loop of place_racks from candidate i on; a placed rack gets the id of
\* its candidate's position in the list (enumerate index + 1)
RECURSIVE PlaceRacksLoop(_, _, _, _, _)
PlaceRacksLoop(g, rs, placed, positions, i) ==
    IF i > Len(positions)
    THEN [grid |-> g, racks |-> rs, placed |-> placed]
    ELSE LET r == place_element(g, positions[i][1], positions[i][2],
                                RACK_WIDTH_CELLS, RACK_HEIGHT_CELLS, RACK)
             rack == [grid_x |-> r.element.grid_x, grid_y |-> r.element.grid_y,
                      width_cells |-> r.element.width_cells,
                      height_cells |-> r.element.height_cells,
                      type |-> r.element.type, id |-> i]
         IN  IF r.element # NoElement
             THEN PlaceRacksLoop(r.grid, Append(rs, rack), Append(placed, rack),
                                 positions, i + 1)
             ELSE PlaceRacksLoop(g, rs, placed, positions, i + 1)

\* place_racks that reports a rack for every candidate, placed or not
place_racks_padded(g, rs, rack_positions) ==
    [PlaceRacksLoop(g, rs, <<>>, rack_positions, 1) EXCEPT
        !.placed = [i \in 1 .. Len(rack_positions) |->
                       [grid_x |-> rack_positions[i][1],
                        grid_y |-> rack_positions[i][2],
                        width_cells |-> RACK_WIDTH_CELLS,
                        height_cells |-> RACK_HEIGHT_CELLS,
                        type |-> RACK, id |-> i]]]

place_racks(g, rs, rack_positions) == PlaceRacksLoop(g, rs, <<>>, rack_positions, 1)

(***************************************************************************)
(* RackLayoutOptimizer._clear_racks                                        *)
(***************************************************************************)
\* One rack's loops: y runs over range(grid_y, grid_y + width_cells) and x
\* over range(grid_x, grid_x + height_cells); a cell is reset only when it
\* holds RACK, and an index outside the array raises IndexError, which is
\* swallowed.  k counts the visited cells.
RECURSIVE ClearRackCells(_, _, _)
ClearRackCells(g, rack, k) ==
    IF k >= rack.width_cells * rack.height_cells THEN g
    ELSE LET x == rack.grid_x + (k % rack.height_cells)
             y == rack.grid_y + (k \div rack.height_cells)
         IN  ClearRackCells(IF x < grid_width /\ y < grid_length /\ g[<<x, y>>] = RACK
                            THEN [g EXCEPT ![<<x, y>>] = EMPTY]
                            ELSE g,
                            rack, k + 1)

\* occupancy after _clear_racks over the racks from the i-th on (the rack
\* list itself becomes empty)
RECURSIVE ClearRacksLoop(_, _, _)
ClearRacksLoop(g, rs, i) ==
    IF i > Len(rs) THEN g
    ELSE ClearRacksLoop(ClearRackCells(g, rs[i], 0), rs, i + 1)

\* _clear_racks without the "== RACK" test: every visited cell is reset
clear_racks_untested(g, rs) ==
    [c \in DOMAIN g |->
        IF \E i \in 1 .. Len(rs) :
               c \in (rs[i].grid_x .. (rs[i].grid_x + rs[i].height_cells - 1))
                        \X (rs[i].grid_y .. (rs[i].grid_y + rs[i].width_cells - 1))
        THEN EMPTY ELSE g[c]]

clear_racks(g, rs) == ClearRacksLoop(g, rs, 1)

(***************************************************************************)
(* Candidate generation: RackManager                                       *)
(***************************************************************************)
\* A strategy's outcome: the candidate list, or raised = TRUE when the call
\* ends in an exception (ZeroDivisionError)
Returned(positions) == [raised |-> FALSE, positions |-> positions]
Raised == [raised |-> TRUE, positions |-> <<>>]

\* rack_positions[:num_racks], num_racks >= 0
Prefix(positions, n) == SubSeq(positions, 1, Min(n, Len(positions)))

calculate_rack_positions(num_racks, top_margin, bottom_margin, left_margin, right_margin, row_spacing) ==
    LET available_width == grid_width - left_margin - right_margin
        available_height == grid_length - top_margin - bottom_margin
        max_racks_per_row == PyFloorDiv(available_width, RACK_WIDTH_CELLS)
        rows0 == PyFloorDiv(num_racks + max_racks_per_row - 1, max_racks_per_row)
        total_height_needed == rows0 * (RACK_HEIGHT_CELLS + row_spacing) - row_spacing
        truncated == total_height_needed > available_height
        max_rows == PyFloorDiv(available_height, RACK_HEIGHT_CELLS + row_spacing)
        n1 == IF truncated THEN max_rows * max_racks_per_row ELSE num_racks
        rows_needed == IF truncated THEN max_rows ELSE rows0
        RECURSIVE Rows(_)
        Rows(row) ==
            IF row >= rows_needed THEN <<>>
            ELSE LET grid_y == bottom_margin + row * (RACK_HEIGHT_CELLS + row_spacing)
                     racks_in_this_row ==
                         Min(max_racks_per_row, n1 - row * max_racks_per_row)
                 IN  IF racks_in_this_row <= 0 THEN <<>>
                     ELSE [i \in 1 .. racks_in_this_row |->
                             <<left_margin + (i - 1) * RACK_WIDTH_CELLS, grid_y>>]
                          \o Rows(row + 1)
    IN  IF max_racks_per_row = 0 THEN <<>> ELSE Rows(0)

\* calculate_rack_positions_with_aisle filling one row only and alternating
\* between the two halves
calculate_rack_positions_with_aisle_alternating(num_racks, top_margin, bottom_margin, left_margin, right_margin, row_spacing, aisle_width) ==
    LET available_width == grid_width - left_margin - right_margin
        half == PyFloorDiv(available_width - aisle_width, 2 * RACK_WIDTH_CELLS)
        center_x == left_margin + PyFloorDiv(available_width, 2)
        half_aisle == PyFloorDiv(aisle_width, 2)
    IN  [i \in 1 .. Min(num_racks, 2 * half) |->
            IF i % 2 = 1
            THEN <<center_x - half_aisle - ((i + 1) \div 2) * RACK_WIDTH_CELLS,
                   bottom_margin>>
            ELSE <<center_x + half_aisle + ((i \div 2) - 1) * RACK_WIDTH_CELLS,
                   bottom_margin>>]

calculate_rack_positions_with_aisle(num_racks, top_margin, bottom_margin, left_margin, right_margin, row_spacing, aisle_width) ==
    LET available_width == grid_width - left_margin - right_margin
        available_height == grid_length - top_margin - bottom_margin
        max_racks_per_half_row ==
            PyFloorDiv(available_width - aisle_width, 2 * RACK_WIDTH_CELLS)
        max_racks_per_row == max_racks_per_half_row * 2
        rows0 == PyFloorDiv(num_racks + max_racks_per_row - 1, max_racks_per_row)
        total_height_needed == rows0 * (RACK_HEIGHT_CELLS + row_spacing) - row_spacing
        truncated == total_height_needed > available_height
        max_rows == PyFloorDiv(available_height, RACK_HEIGHT_CELLS + row_spacing)
        n1 == IF truncated THEN max_rows * max_racks_per_row ELSE num_racks
        rows_needed == IF truncated THEN max_rows ELSE rows0
        center_x == left_margin + PyFloorDiv(available_width, 2)
        half_aisle == PyFloorDiv(aisle_width, 2)
        RECURSIVE Rows(_)
        Rows(row) ==
            IF row >= rows_needed THEN <<>>
            ELSE LET grid_y == bottom_margin + row * (RACK_HEIGHT_CELLS + row_spacing)
                     racks_in_this_row ==
                         Min(max_racks_per_row, n1 - row * max_racks_per_row)
                     racks_left == Min(max_racks_per_half_row, racks_in_this_row)
                     racks_right ==
                         Min(max_racks_per_half_row, racks_in_this_row - racks_left)
                 IN  IF racks_in_this_row <= 0 THEN <<>>
                     ELSE [i \in 1 .. racks_left |->
                             <<center_x - half_aisle - i * RACK_WIDTH_CELLS, grid_y>>]
                          \o [i \in 1 .. racks_right |->
                             <<center_x + half_aisle + (i - 1) * RACK_WIDTH_CELLS,
                               grid_y>>]
                          \o Rows(row + 1)
    IN  IF max_racks_per_half_row = 0 THEN <<>> ELSE Rows(0)

(***************************************************************************)
(* Candidate generation: RackLayoutOptimizer                               *)
(***************************************************************************)
\* Default parameters of generate_layout
DefaultParams ==
    [top_margin |-> 3, bottom_margin |-> 3, left_margin |-> 3,
     right_margin |-> 3, row_spacing |-> 2, aisle_width |-> 4,
     pod_size |-> 16, diagonal_angle |-> 30]

\* params.update(kwargs)
UpdateParams(params, kwargs) ==
    [k \in DOMAIN params |-> IF k \in DOMAIN kwargs THEN kwargs[k] ELSE params[k]]

generate_standard_layout(num_racks, params) ==
    Returned(calculate_rack_positions(num_racks, params.top_margin,
                 params.bottom_margin, params.left_margin, params.right_margin,
                 params.row_spacing))

generate_hot_cold_layout(num_racks, params) ==
    Returned(calculate_rack_positions_with_aisle(num_racks, params.top_margin,
                 params.bottom_margin, params.left_margin, params.right_margin,
                 params.row_spacing, params.aisle_width))

\* The diagonal layout is modelled at its default angle of 30 degrees.  The
\* floating-point values are math.cos(math.radians(30)) = 0.8660254037844387
\* and math.sin(math.radians(30)) = 0.49999999999999994; products with the
\* cosine are carried in units of 10^-6, and int(i * rack_width * sin) is
\* i - 1 for i >= 1 because the sine is just below one half.
FIXED_POINT == 1000000
COS_30 == 866025
SIN_30 == 500000

generate_diagonal_layout(num_racks, params) ==
    LET available_width == grid_width - params.left_margin - params.right_margin
        available_height == grid_length - params.top_margin - params.bottom_margin
        diagonal_length == available_width * COS_30 + available_height * SIN_30
        racks_per_diagonal ==
            PyTrunc(diagonal_length,
                    RACK_WIDTH_CELLS * COS_30 + RACK_HEIGHT_CELLS * SIN_30)
        row_width == RACK_WIDTH_CELLS * SIN_30 + RACK_HEIGHT_CELLS * COS_30
        row_pitch == row_width + params.row_spacing * FIXED_POINT
        diagonal_rows == PyTrunc(available_width * FIXED_POINT, row_pitch)
        rows == Min(diagonal_rows,
                    PyFloorDiv(num_racks + racks_per_diagonal - 1, racks_per_diagonal))
        InBounds(pos) ==
            /\ pos[1] >= 0 /\ pos[1] + RACK_WIDTH_CELLS <= grid_width
            /\ pos[2] >= 0 /\ pos[2] + RACK_HEIGHT_CELLS <= grid_length
        Pos(row, i) ==
            <<params.left_margin
                + ((row * row_pitch + i * RACK_WIDTH_CELLS * COS_30) \div FIXED_POINT),
              params.bottom_margin + Max(0, i - 1)>>
        RECURSIVE Racks(_, _, _)
        Racks(row, i, row_racks) ==
            IF i >= row_racks THEN <<>>
            ELSE (IF InBounds(Pos(row, i)) THEN <<Pos(row, i)>> ELSE <<>>)
                 \o Racks(row, i + 1, row_racks)
        RECURSIVE Rows(_)
        Rows(row) ==
            IF row >= rows THEN <<>>
            ELSE Racks(row, 0, Min(racks_per_diagonal,
                                   num_racks - row * racks_per_diagonal))
                 \o Rows(row + 1)
    IN  IF racks_per_diagonal = 0 THEN Raised ELSE Returned(Rows(0))

generate_perimeter_layout(num_racks, params) ==
    LET available_width == grid_width - params.left_margin - params.right_margin
        available_height == grid_length - params.top_margin - params.bottom_margin
        rack_width == RACK_WIDTH_CELLS
        rack_height == RACK_HEIGHT_CELLS
        RECURSIVE Rings(_, _)
        Rings(current_margin, racks_needed) ==
            IF ~ (racks_needed > 0
                  /\ current_margin * 2 < Min(available_width, available_height))
            THEN <<>>
            ELSE LET ring_width == available_width - 2 * current_margin
                     ring_height == available_height - 2 * current_margin
                     side == PyFloorDiv(ring_height, rack_height)
                     edge == PyFloorDiv(ring_width - 2 * rack_width, rack_width)
                     left_right == Min(2 * side, racks_needed)
                     needed1 == racks_needed - left_right
                     top_bottom == IF needed1 > 0 THEN Min(2 * edge, needed1) ELSE 0
                     needed2 == IF needed1 > 0 THEN needed1 - top_bottom ELSE needed1
                     x0 == params.left_margin + current_margin
                     y0 == params.bottom_margin + current_margin
                 IN  [i \in 1 .. Min(side, left_right) |->
                         <<x0, y0 + (i - 1) * rack_height>>]
                     \o [i \in 1 .. Min(side, Max(0, left_right - side)) |->
                         <<x0 + ring_width - rack_width, y0 + (i - 1) * rack_height>>]
                     \o [i \in 1 .. Min(edge, top_bottom) |->
                         <<x0 + rack_width + (i - 1) * rack_width, y0>>]
                     \o [i \in 1 .. Min(edge, Max(0, top_bottom - edge)) |->
                         <<x0 + rack_width + (i - 1) * rack_width,
                           y0 + ring_height - rack_height>>]
                     \o Rings(current_margin + rack_width + params.row_spacing,
                              needed2)
    IN  Returned(Prefix(Rings(0, num_racks), num_racks))

\* int(math.sqrt(n)), n >= 0
ISqrt(n) == CHOOSE r \in 0 .. n : r * r <= n /\ (r + 1) * (r + 1) > n

\* The pod loops append a position while racks_placed < racks_to_place and
\* otherwise fall through every remaining iteration, so the result is the
\* first racks_to_place positions in loop order: pods row-major, then the
\* racks of a pod row-major.  pod_size = 0 divides by zero.
generate_pod_layout(num_racks, params) ==
    LET available_width == grid_width - params.left_margin - params.right_margin
        available_height == grid_length - params.top_margin - params.bottom_margin
        rack_width == RACK_WIDTH_CELLS
        rack_height == RACK_HEIGHT_CELLS
        pod_rows == ISqrt(params.pod_size)
        pod_cols == PyFloorDiv(params.pod_size, pod_rows)
        pod_width == pod_cols * rack_width + (pod_cols - 1)
        pod_height == pod_rows * rack_height + (pod_rows - 1)
        pods_per_row == PyFloorDiv(available_width, pod_width + params.aisle_width)
        pods_per_col == PyFloorDiv(available_height, pod_height + params.aisle_width)
        total_pods == pods_per_row * pods_per_col
        total_racks_in_pods == total_pods * params.pod_size
        racks_to_place == Min(num_racks, total_racks_in_pods)
        per_pod == pod_rows * pod_cols
        visited == IF pods_per_row > 0 /\ pods_per_col > 0
                   THEN pods_per_col * pods_per_row * per_pod ELSE 0
        Pos(k) ==
            LET pod == k \div per_pod
                slot == k % per_pod
                pod_row == pod \div pods_per_row
                pod_col == pod % pods_per_row
                row == slot \div pod_cols
                col == slot % pod_cols
                pod_x == params.left_margin + pod_col * (pod_width + params.aisle_width)
                pod_y == params.bottom_margin + pod_row * (pod_height + params.aisle_width)
            IN  <<pod_x + col * (rack_width + 1), pod_y + row * (rack_height + 1)>>
    IN  IF params.pod_size = 0 THEN Raised
        ELSE Returned([k \in 1 .. Min(racks_to_place, visited) |-> Pos(k - 1)])

(***************************************************************************)
(* Candidate generation: AdvancedRackLayoutStrategies                      *)
(***************************************************************************)
\* the defaults of the params.get(...) calls
AdvancedDefaults ==
    [top_margin |-> 3, bottom_margin |-> 3, left_margin |-> 3,
     right_margin |-> 3, row_spacing |-> 2, spine_width |-> 4,
     cluster_spacing |-> 4, cluster_size |-> 8,
     cold_aisle_width |-> 3, hot_aisle_width |-> 4,
     high_density_pct |-> 30, high_density_spacing |-> 2]

\* one spine aisle per 20 cells of available width
SPINE_PITCH == 20

\* spine_positions[i] = int(left_margin + i * (available_width / num_spines))
generate_spine_leaf_layout(num_racks, params) ==
    LET available_width == grid_width - params.left_margin - params.right_margin
        available_height == grid_length - params.top_margin - params.bottom_margin
        num_spines == Max(1, PyFloorDiv(available_width, SPINE_PITCH))
        spine_position(i) ==
            params.left_margin + PyTrunc(i * available_width, num_spines)
        start_x(i) == IF i > 0 THEN spine_position(i) + params.spine_width
                      ELSE params.left_margin
        end_x(i) == IF i < num_spines - 1 THEN spine_position(i + 1)
                    ELSE params.left_margin + available_width
        max_rows == PyFloorDiv(available_height,
                               RACK_HEIGHT_CELLS + params.row_spacing)
        \* the leaf sections from spine i on, with racks_needed still to place
        RECURSIVE Sections(_, _)
        Sections(i, racks_needed) ==
            IF i >= num_spines THEN <<>>
            ELSE IF end_x(i) - start_x(i) < RACK_WIDTH_CELLS
            THEN Sections(i + 1, racks_needed)
            ELSE LET racks_per_row ==
                         PyFloorDiv(end_x(i) - start_x(i), RACK_WIDTH_CELLS)
                     rows_needed ==
                         Min(PyFloorDiv(racks_needed + racks_per_row - 1,
                                        racks_per_row),
                             max_rows)
                     count == IF rows_needed > 0
                              THEN Min(racks_needed, rows_needed * racks_per_row)
                              ELSE 0
                 IN  [k \in 1 .. count |->
                         <<start_x(i) + ((k - 1) % racks_per_row) * RACK_WIDTH_CELLS,
                           params.bottom_margin
                             + ((k - 1) \div racks_per_row)
                               * (RACK_HEIGHT_CELLS + params.row_spacing)>>]
                     \o Sections(i + 1, racks_needed - count)
    IN  Returned(Sections(0, num_racks))

\* The cluster loops stop at the first cluster that finds racks_needed <= 0,
\* so the result is the first racks_needed positions in loop order:
\* clusters row-major, a cluster's racks row-major in rows of
\* int(sqrt(cluster_size)).  cluster_size = 0 divides by zero.
generate_cluster_layout(num_racks, params) ==
    LET available_width == grid_width - params.left_margin - params.right_margin
        available_height == grid_length - params.top_margin - params.bottom_margin
        cluster_grid_width == ISqrt(params.cluster_size)
        cluster_grid_height ==
            PyFloorDiv(params.cluster_size + cluster_grid_width - 1,
                       cluster_grid_width)
        cluster_width ==
            cluster_grid_width * RACK_WIDTH_CELLS + params.cluster_spacing
        cluster_height ==
            cluster_grid_height * RACK_HEIGHT_CELLS + params.cluster_spacing
        clusters_per_row == PyFloorDiv(available_width, cluster_width)
        clusters_per_col == PyFloorDiv(available_height, cluster_height)
        total_racks_in_clusters ==
            clusters_per_row * clusters_per_col * params.cluster_size
        racks_needed == Min(num_racks, total_racks_in_clusters)
        visited == IF clusters_per_row > 0 /\ clusters_per_col > 0
                   THEN clusters_per_row * clusters_per_col * params.cluster_size
                   ELSE 0
        Pos(k) ==
            LET cluster == k \div params.cluster_size
                slot == k % params.cluster_size
                cluster_x == params.left_margin
                               + (cluster % clusters_per_row) * cluster_width
                cluster_y == params.bottom_margin
                               + (cluster \div clusters_per_row) * cluster_height
            IN  <<cluster_x + (slot % cluster_grid_width) * RACK_WIDTH_CELLS,
                  cluster_y + (slot \div cluster_grid_width) * RACK_HEIGHT_CELLS>>
    IN  IF params.cluster_size = 0 THEN Raised
        ELSE Returned([k \in 1 .. Min(racks_needed, visited) |-> Pos(k - 1)])

\* a room too narrow for one aisle pair gets one pair with widened aisles;
\* aisle_pair_width is not recomputed
generate_cooling_optimized_layout(num_racks, params) ==
    LET available_width == grid_width - params.left_margin - params.right_margin
        available_height == grid_length - params.top_margin - params.bottom_margin
        aisle_pair_width == 2 * RACK_WIDTH_CELLS + params.cold_aisle_width
                              + params.hot_aisle_width
        pairs0 == PyFloorDiv(available_width, aisle_pair_width)
        cold_aisle_width ==
            IF pairs0 = 0
            THEN Max(2, PyFloorDiv(available_width - 2 * RACK_WIDTH_CELLS, 2))
            ELSE params.cold_aisle_width
        num_aisle_pairs == IF pairs0 = 0 THEN 1 ELSE pairs0
        racks_per_row == num_aisle_pairs * 2
        rows0 == PyFloorDiv(num_racks + racks_per_row - 1, racks_per_row)
        total_height_needed ==
            rows0 * (RACK_HEIGHT_CELLS + params.row_spacing) - params.row_spacing
        rows_needed ==
            IF total_height_needed > available_height
            THEN PyFloorDiv(available_height, RACK_HEIGHT_CELLS + params.row_spacing)
            ELSE rows0
        count == IF rows_needed > 0 /\ num_aisle_pairs > 0
                 THEN Min(num_racks, rows_needed * racks_per_row) ELSE 0
        Pos(k) ==
            LET row == k \div racks_per_row
                slot == k % racks_per_row
                aisle_start_x == params.left_margin + (slot \div 2) * aisle_pair_width
            IN  <<IF slot % 2 = 0 THEN aisle_start_x
                  ELSE aisle_start_x + RACK_WIDTH_CELLS + cold_aisle_width,
                  params.bottom_margin
                    + row * (RACK_HEIGHT_CELLS + params.row_spacing)>>
    IN  Returned(Prefix([k \in 1 .. count |-> Pos(k - 1)], num_racks))

\* high_density_count = int(num_racks * pct / 100) and high_density_width =
\* int(available_width * (high_density_count / num_racks) * 1.5), computed
\* exactly; the floating-point results agree for pct <= 50 and an available
\* width below 14.  num_racks = 0 divides by zero.
generate_high_density_zones_layout(num_racks, params) ==
    LET available_width == grid_width - params.left_margin - params.right_margin
        high_density_count == (num_racks * params.high_density_pct) \div 100
        low_density_count == num_racks - high_density_count
        high_density_width ==
            PyTrunc(3 * available_width * high_density_count, 2 * num_racks)
        low_density_width == available_width - high_density_width
        hd_pitch == RACK_WIDTH_CELLS + params.high_density_spacing
        hd0 == PyFloorDiv(high_density_width, hd_pitch)
        hd_racks_per_row == IF hd0 <= 0 THEN 1 ELSE hd0
        ld0 == PyFloorDiv(low_density_width, RACK_WIDTH_CELLS)
        ld_racks_per_row == IF ld0 <= 0 THEN 1 ELSE ld0
        hd == [k \in 1 .. high_density_count |->
                 <<params.left_margin + ((k - 1) % hd_racks_per_row) * hd_pitch,
                   params.bottom_margin
                     + ((k - 1) \div hd_racks_per_row)
                       * (RACK_HEIGHT_CELLS + params.high_density_spacing)>>]
        ld == [k \in 1 .. low_density_count |->
                 <<params.left_margin + high_density_width
                     + ((k - 1) % ld_racks_per_row) * RACK_WIDTH_CELLS,
                   params.bottom_margin
                     + ((k - 1) \div ld_racks_per_row) * (RACK_HEIGHT_CELLS + 1)>>]
    IN  IF num_racks = 0 THEN Raised
        ELSE Returned(Prefix(hd \o ld, num_racks))

(***************************************************************************)
(* RackLayoutOptimizer                                                     *)
(***************************************************************************)
LAYOUT_STANDARD == "standard"
LAYOUT_HOT_COLD == "hot_cold_aisle"
LAYOUT_DIAGONAL == "diagonal"
LAYOUT_PERIMETER == "perimeter"
LAYOUT_PODS == "pods"

\* layout_types of compare_layouts, in its order
LayoutTypes ==
    <<LAYOUT_STANDARD, LAYOUT_HOT_COLD, LAYOUT_DIAGONAL, LAYOUT_PERIMETER,
      LAYOUT_PODS>>

\* The metrics map is a Python dict: a sequence of entries in insertion
\* order, one per key.  space_utilization = rack_space / total_space is
\* carried as the pair of its numerator and denominator.
MetricsKeys(lm) == {lm[i].layout_type : i \in 1 .. Len(lm)}

MetricsGet(lm, key) ==
    lm[CHOOSE i \in 1 .. Len(lm) : lm[i].layout_type = key]

\* layout_metrics[key] = entry: a present key keeps its position
MetricsSet(lm, entry) ==
    IF entry.layout_type \in MetricsKeys(lm)
    THEN [i \in 1 .. Len(lm) |->
             IF lm[i].layout_type = entry.layout_type THEN entry ELSE lm[i]]
    ELSE Append(lm, entry)

RECURSIVE SumArea(_, _)
SumArea(rs, i) ==
    IF i > Len(rs) THEN 0
    ELSE rs[i].width_cells * rs[i].height_cells + SumArea(rs, i + 1)

\* _calculate_metrics counting every rack as a single cell
calculate_metrics_unit_area(layout_type, placed, params) ==
    [layout_type |-> layout_type, racks_placed |-> Len(placed),
     rack_space |-> Len(placed), total_space |-> grid_width * grid_length,
     parameters |-> params]

\* _calculate_metrics: the entry stored under layout_type
calculate_metrics(layout_type, placed, params) ==
    LET total_space == grid_width * grid_length
    IN  [layout_type |-> layout_type,
         racks_placed |-> Len(placed),
         rack_space |-> IF total_space > 0 THEN SumArea(placed, 1) ELSE 0,
         total_space |-> IF total_space > 0 THEN total_space ELSE 1,
         parameters |-> params]

\* the if/elif chain of generate_layout; an unknown type raises ValueError
GeneratePositions(layout_type, num_racks, params) ==
    IF layout_type = LAYOUT_STANDARD THEN generate_standard_layout(num_racks, params)
    ELSE IF layout_type = LAYOUT_HOT_COLD THEN generate_hot_cold_layout(num_racks, params)
    ELSE IF layout_type = LAYOUT_DIAGONAL THEN generate_diagonal_layout(num_racks, params)
    ELSE IF layout_type = LAYOUT_PERIMETER THEN generate_perimeter_layout(num_racks, params)
    ELSE IF layout_type = LAYOUT_PODS THEN generate_pod_layout(num_racks, params)
    ELSE Raised

\* the end of generate_layout: r is what place_racks returned for the
\* candidates; the layout's metrics are stored under its type
StoreLayout(lm, layout_type, params, positions, r) ==
    [grid |-> r.grid, racks |-> r.racks,
     layout_metrics |->
         MetricsSet(lm, calculate_metrics(layout_type, r.placed, params)),
     raised |-> FALSE, positions |-> positions]

\* generate_layout after candidate generation: when it raised, the call ends
\* there, with the racks cleared and nothing placed or stored
CommitLayout(g0, lm, layout_type, params, gen) ==
    IF gen.raised
    THEN [grid |-> g0, racks |-> <<>>, layout_metrics |-> lm,
          raised |-> TRUE, positions |-> <<>>]
    ELSE StoreLayout(lm, layout_type, params, gen.positions,
                     place_racks(g0, <<>>, gen.positions))

\* generate_layout whose candidates are filtered by the occupancy array
GenerateWith_skipping_occupied(g0, lm, layout_type, num_racks, params) ==
    LET gen == GeneratePositions(layout_type, num_racks, params)
        free == SelectSeq(gen.positions,
                    LAMBDA pos : is_area_empty(g0, pos[1], pos[2],
                                     RACK_WIDTH_CELLS, RACK_HEIGHT_CELLS))
    IN  CommitLayout(g0, lm, layout_type, params,
                     [raised |-> gen.raised, positions |-> free])

\* generate_layout after _clear_racks and params.update(kwargs)
GenerateWith(g0, lm, layout_type, num_racks, params) ==
    CommitLayout(g0, lm, layout_type, params,
                 GeneratePositions(layout_type, num_racks, params))

\* generate_layout on occupancy g, rack list rs and metrics map lm: racks are
\* cleared first, then candidates are generated and committed
generate_layout(g, rs, lm, layout_type, num_racks, kwargs) ==
    GenerateWith(clear_racks(g, rs), lm, layout_type, num_racks,
                 UpdateParams(DefaultParams, kwargs))

\* the loop of compare_layouts (plot = False) from the i-th layout type on;
\* an exception of generate_layout is caught and the loop goes on
RECURSIVE CompareLoop(_, _, _, _, _, _)

\* the loop body once generate_layout has ended with r
CompareStep(r, results, num_racks, i) ==
    CompareLoop(r.grid, r.racks, r.layout_metrics,
                IF r.raised THEN results
                ELSE MetricsSet(results,
                                MetricsGet(r.layout_metrics, LayoutTypes[i])),
                num_racks, i + 1)

CompareLoop(g, rs, lm, results, num_racks, i) ==
    IF i > Len(LayoutTypes)
    THEN [grid |-> g, racks |-> rs, layout_metrics |-> lm, results |-> results]
    ELSE CompareStep(generate_layout(g, rs, lm, LayoutTypes[i], num_racks, <<>>),
                     results, num_racks, i)

compare_layouts(g, rs, lm, num_racks) == CompareLoop(g, rs, lm, <<>>, num_racks, 1)

\* the metric's value of an entry as a fraction <<numerator, denominator>>
MetricValue(entry, metric) ==
    IF metric = "space_utilization" THEN <<entry.rack_space, entry.total_space>>
    ELSE <<entry.racks_placed, 1>>

\* a > b for fractions with positive denominators
FracGreater(a, b) == a[1] * b[2] > b[1] * a[2]

\* the scan of get_best_layout from entry i on; best = 0 stands for None
RECURSIVE BestScan(_, _, _, _, _)
BestScan(lm, metric, i, best, best_value) ==
    IF i > Len(lm) THEN best
    ELSE IF FracGreater(MetricValue(lm[i], metric), best_value)
         THEN BestScan(lm, metric, i + 1, i, MetricValue(lm[i], metric))
         ELSE BestScan(lm, metric, i + 1, best, best_value)

NoLayout == "None"

\* get_best_layout compares first when fewer than 5 entries are stored
CompareIfNeeded(g, rs, lm, num_racks) ==
    IF Len(lm) < 5
    THEN compare_layouts(g, rs, lm, num_racks)
    ELSE [grid |-> g, racks |-> rs, layout_metrics |-> lm, results |-> <<>>]

\* what get_best_layout returns and leaves behind, c being the state after
\* the comparison and best the index of the best entry
BestOf(c, best) ==
    [grid |-> c.grid, racks |-> c.racks, layout_metrics |-> c.layout_metrics,
     best_layout |-> IF best = 0 THEN NoLayout
                     ELSE c.layout_metrics[best].layout_type,
     metrics |-> IF best = 0 THEN <<>> ELSE <<c.layout_metrics[best]>>]

\* the scan of get_best_layout keeping the last of several equal maxima
PickBest_last_max(c, metric) ==
    BestOf(c, IF c.layout_metrics = <<>> THEN 0
              ELSE CHOOSE i \in 1 .. Len(c.layout_metrics) :
                     /\ \A j \in 1 .. Len(c.layout_metrics) :
                            ~ FracGreater(MetricValue(c.layout_metrics[j], metric),
                                          MetricValue(c.layout_metrics[i], metric))
                     /\ \A j \in (i + 1) .. Len(c.layout_metrics) :
                            FracGreater(MetricValue(c.layout_metrics[i], metric),
                                        MetricValue(c.layout_metrics[j], metric)))

PickBest(c, metric) ==
    BestOf(c, BestScan(c.layout_metrics, metric, 1, 0, <<-1, 1>>))

get_best_layout(g, rs, lm, num_racks, metric) ==
    PickBest(CompareIfNeeded(g, rs, lm, num_racks), metric)

(***************************************************************************)
(* Operations                                                              *)
(***************************************************************************)
\* every operation counts against the bound of its model
Step(bound) == steps < bound /\ steps' = steps + 1

PlacePillar(gx, gy, gw, gh) ==
    LET r == place_pillar(grid, pillars, gx, gy, gw, gh)
    IN  /\ grid' = r.grid
        /\ pillars' = r.pillars
        /\ last' = [op |-> "place_pillar", args |-> <<gx, gy, gw, gh>>,
                    result |-> r.element, raised |-> FALSE]
        /\ UNCHANGED <<grid_size_mm, grid_width, grid_length, racks, walls, layout_metrics>>

PlacePillarsWithExactSpacing(wmm, hmm, xft, yft) ==
    LET r == place_pillars_with_exact_spacing(grid, wmm, hmm, xft, yft)
    IN  /\ grid' = r.grid
        /\ pillars' = r.pillars
        /\ last' = [op |-> "place_pillars_with_exact_spacing",
                    args |-> <<wmm, hmm, xft, yft>>,
                    result |-> r.placed, raised |-> r.raised]
        /\ UNCHANGED <<grid_size_mm, grid_width, grid_length, racks, walls, layout_metrics>>

PlacePillarsByCount(wmm, hmm, nx, ny) ==
    LET r == place_pillars_by_count(grid, wmm, hmm, nx, ny)
    IN  /\ grid' = r.grid
        /\ pillars' = r.pillars
        /\ last' = [op |-> "place_pillars_by_count",
                    args |-> <<wmm, hmm, nx, ny>>,
                    result |-> r.placed, raised |-> FALSE]
        /\ UNCHANGED <<grid_size_mm, grid_width, grid_length, racks, walls, layout_metrics>>

PlaceRacks(positions) ==
    LET r == place_racks(grid, racks, positions)
    IN  /\ grid' = r.grid
        /\ racks' = r.racks
        /\ last' = [op |-> "place_racks", args |-> positions,
                    result |-> r.placed, raised |-> FALSE]
        /\ UNCHANGED <<grid_size_mm, grid_width, grid_length, pillars, walls, layout_metrics>>

ClearRacks ==
    /\ grid' = clear_racks(grid, racks)
    /\ racks' = <<>>
    /\ last' = [op |-> "clear_racks", args |-> <<>>, result |-> <<>>,
                raised |-> FALSE]
    /\ UNCHANGED <<grid_size_mm, grid_width, grid_length, pillars, walls, layout_metrics>>

\* keyword arguments of generate_layout: none (1), or a tight parameter set (2)
TightParams ==
    [top_margin |-> 0, bottom_margin |-> 0, left_margin |-> 0,
     right_margin |-> 0, row_spacing |-> 1, aisle_width |-> 2, pod_size |-> 4]
Kwargs(kw) == IF kw = 1 THEN <<>> ELSE TightParams

GenerateLayout(layout_type, num_racks, kw) ==
    LET r == generate_layout(grid, racks, layout_metrics, layout_type,
                             num_racks, Kwargs(kw))
    IN  /\ grid' = r.grid
        /\ racks' = r.racks
        /\ layout_metrics' = r.layout_metrics
        /\ last' = [op |-> "generate_layout",
                    args |-> <<layout_type, num_racks, kw>>,
                    result |-> r.positions, raised |-> r.raised]
        /\ UNCHANGED <<grid_size_mm, grid_width, grid_length, pillars, walls>>

CompareLayouts(num_racks) ==
    LET r == compare_layouts(grid, racks, layout_metrics, num_racks)
    IN  /\ grid' = r.grid
        /\ racks' = r.racks
        /\ layout_metrics' = r.layout_metrics
        /\ last' = [op |-> "compare_layouts", args |-> <<num_racks>>,
                    result |-> r.results, raised |-> FALSE]
        /\ UNCHANGED <<grid_size_mm, grid_width, grid_length, pillars, walls>>

GetBestLayout(num_racks, metric) ==
    LET r == get_best_layout(grid, racks, layout_metrics, num_racks, metric)
    IN  /\ grid' = r.grid
        /\ racks' = r.racks
        /\ layout_metrics' = r.layout_metrics
        /\ last' = [op |-> "get_best_layout", args |-> <<num_racks, metric>>,
                    result |-> <<r.best_layout, r.metrics>>, raised |-> FALSE]
        /\ UNCHANGED <<grid_size_mm, grid_width, grid_length, pillars, walls>>

\* a direct call of RackManager.calculate_rack_positions
CalculateRackPositions(num_racks, top_margin, bottom_margin, left_margin, right_margin, row_spacing) ==
    /\ last' = [op |-> "calculate_rack_positions",
                args |-> <<num_racks, top_margin, bottom_margin,
                           left_margin, right_margin, row_spacing>>,
                result |-> calculate_rack_positions(num_racks, top_margin,
                               bottom_margin, left_margin, right_margin,
                               row_spacing),
                raised |-> FALSE]
    /\ UNCHANGED <<grid_size_mm, grid_width, grid_length, grid, pillars, racks, walls,
                   layout_metrics, steps>>

\* a direct call of RackManager.calculate_rack_positions_with_aisle
CalculateRackPositionsWithAisle(num_racks, top_margin, bottom_margin, left_margin, right_margin, row_spacing, aisle_width) ==
    /\ last' = [op |-> "calculate_rack_positions_with_aisle",
                args |-> <<num_racks, top_margin, bottom_margin,
                           left_margin, right_margin, row_spacing, aisle_width>>,
                result |-> calculate_rack_positions_with_aisle(num_racks,
                               top_margin, bottom_margin, left_margin,
                               right_margin, row_spacing, aisle_width),
                raised |-> FALSE]
    /\ UNCHANGED <<grid_size_mm, grid_width, grid_length, grid, pillars, racks, walls,
                   layout_metrics, steps>>

\* the candidate generators, each called with its default parameters
StrategyNames ==
    {"row", "aisle", "diagonal", "perimeter", "pod",
     "spine_leaf", "cluster", "cooling", "high_density"}

ApplyStrategy(strategy, num_racks) ==
    CASE strategy = "row" -> generate_standard_layout(num_racks, DefaultParams)
      [] strategy = "aisle" -> generate_hot_cold_layout(num_racks, DefaultParams)
      [] strategy = "diagonal" -> generate_diagonal_layout(num_racks, DefaultParams)
      [] strategy = "perimeter" -> generate_perimeter_layout(num_racks, DefaultParams)
      [] strategy = "pod" -> generate_pod_layout(num_racks, DefaultParams)
      [] strategy = "spine_leaf" ->
            generate_spine_leaf_layout(num_racks, AdvancedDefaults)
      [] strategy = "cluster" -> generate_cluster_layout(num_racks, AdvancedDefaults)
      [] strategy = "cooling" ->
            generate_cooling_optimized_layout(num_racks, AdvancedDefaults)
      [] strategy = "high_density" ->
            generate_high_density_zones_layout(num_racks, AdvancedDefaults)

CallStrategy(strategy, num_racks) ==
    LET r == ApplyStrategy(strategy, num_racks)
    IN  /\ last' = [op |-> "strategy", args |-> <<strategy, num_racks>>,
                    result |-> r.positions, raised |-> r.raised]
        /\ UNCHANGED <<grid_size_mm, grid_width, grid_length, grid, pillars, racks, walls,
                       layout_metrics, steps>>

InitGrid(w, l) ==
    /\ grid_size_mm = GRID_SIZE_MM
    /\ grid_width = w
    /\ grid_length = l
    /\ grid = [c \in Cells(w, l) |-> EMPTY]
    /\ pillars = <<>>
    /\ racks = <<>>
    /\ walls = <<>>
    /\ layout_metrics = <<>>
    /\ last = [op |-> "init", args |-> <<>>, result |-> <<>>, raised |-> FALSE]
    /\ steps = 0

(***************************************************************************)
(* Spec: every operation on one room, pillars through optimizer runs       *)
(***************************************************************************)
\* pillar sizes in millimetres: 0 and 1 cell wide, 1 cell high
PillarWidthsMm == {200, 600}
PillarHeightsMm == {600}
\* pillar spacings in feet: 3 cells along x, 2 or 3 cells along y
SpacingsXFt == {6}
SpacingsYFt == {4, 6}
\* single pillars <<grid_x, grid_y, width, height>>
SinglePillars == {<<0, 0, 2, 2>>, <<3, 3, 1, 1>>, <<grid_width - 1, 0, 2, 1>>}
\* rack candidates handed to place_racks directly
CandPositions == {<<0, 0>>, <<3, 3>>, <<grid_width - 1, 0>>}
CandLists == UNION {[1 .. k -> CandPositions] : k \in 0 .. MaxCands}
RackCounts == {0, 2, MaxRacks}
GenerateTypes == {LayoutTypes[i] : i \in 1 .. Len(LayoutTypes)} \cup {"spiral"}
Metrics == {"space_utilization", "racks_placed"}

Init == InitGrid(MaxGridWidth, MaxGridLength)

DoPlacePillar ==
    /\ Step(MaxSteps)
    /\ \E p \in SinglePillars : PlacePillar(p[1], p[2], p[3], p[4])

DoPlacePillarsWithExactSpacing ==
    /\ Step(MaxSteps)
    /\ \E wmm \in PillarWidthsMm, hmm \in PillarHeightsMm,
       xft \in SpacingsXFt, yft \in SpacingsYFt :
        PlacePillarsWithExactSpacing(wmm, hmm, xft, yft)

DoPlacePillarsByCount ==
    /\ Step(MaxSteps)
    /\ \E nx \in 1 .. MaxPillarCount, ny \in 1 .. MaxPillarCount :
        PlacePillarsByCount(600, 600, nx, ny)

DoPlaceRacks ==
    /\ Step(MaxSteps)
    /\ \E positions \in CandLists : PlaceRacks(positions)

DoClearRacks == Step(MaxSteps) /\ ClearRacks

DoGenerateLayout ==
    /\ Step(MaxSteps)
    /\ \E layout_type \in GenerateTypes, num_racks \in RackCounts, kw \in 1 .. 2 :
        GenerateLayout(layout_type, num_racks, kw)

DoCompareLayouts ==
    /\ Step(MaxSteps)
    /\ \E num_racks \in RackCounts : CompareLayouts(num_racks)

DoGetBestLayout ==
    /\ Step(MaxSteps)
    /\ \E num_racks \in RackCounts, metric \in Metrics :
        GetBestLayout(num_racks, metric)

Next ==
    \/ DoPlacePillar
    \/ DoPlacePillarsWithExactSpacing
    \/ DoPlacePillarsByCount
    \/ DoPlaceRacks
    \/ DoClearRacks
    \/ DoGenerateLayout
    \/ DoCompareLayouts
    \/ DoGetBestLayout

Spec == Init /\ [][Next]_vars

(***************************************************************************)
(* SpecPlace: single placements and rack commits on a small room           *)
(***************************************************************************)
PlaceXs == {-1} \cup (0 .. (PlaceGridWidth - 1))
PlaceYs == 0 .. (PlaceGridLength - 1)
\* pillar sizes in millimetres: 0, 1 and 2 cells
PlacePillarSizesMm == {200, 600, 1200}
PlaceCands == (0 .. (PlaceGridWidth - 1)) \X (0 .. (PlaceGridLength - 1))
PlaceCandLists == UNION {[1 .. k -> PlaceCands] : k \in 0 .. MaxPlaceCands}

InitPlace == InitGrid(PlaceGridWidth, PlaceGridLength)

PlaceOnePillar ==
    /\ Step(MaxPlaceSteps)
    /\ \E gx \in PlaceXs, gy \in PlaceYs,
          wmm \in PlacePillarSizesMm, hmm \in PlacePillarSizesMm :
        PlacePillar(gx, gy, MmToCells(wmm), MmToCells(hmm))

PlaceRackList ==
    /\ Step(MaxPlaceSteps)
    /\ \E positions \in PlaceCandLists : PlaceRacks(positions)

NextPlace ==
    \/ PlaceOnePillar
    \/ PlaceRackList

SpecPlace == InitPlace /\ [][NextPlace]_vars

(***************************************************************************)
(* SpecStrategy: the candidate generators on rooms of every size           *)
(***************************************************************************)
MinStrategyGridWidth == 4
MinStrategyGridLength == 3
MaxStrategyGridWidth == 12
MaxStrategyGridLength == 10
MaxNumRacks == 30

NumRacks == {0, 1, 2, 5, 10, 15, MaxNumRacks}
\* <<top_margin, bottom_margin, left_margin, right_margin>>
Margins == {<<0, 0, 0, 0>>, <<1, 1, 1, 1>>, <<0, 1, 2, 0>>}
RowSpacings == 0 .. 2

InitStrategy ==
    \E w \in MinStrategyGridWidth .. MaxStrategyGridWidth,
       l \in MinStrategyGridLength .. MaxStrategyGridLength : InitGrid(w, l)

DoCalculateRackPositions ==
    \E num_racks \in NumRacks, m \in Margins, row_spacing \in RowSpacings :
        CalculateRackPositions(num_racks, m[1], m[2], m[3], m[4], row_spacing)

\* aisle widths, even and odd, and the rack counts of the aisle calls
MaxAisleWidth == 3
AisleWidths == 0 .. MaxAisleWidth
AisleNumRacks == {0, 1, 2, 4, 7, MaxNumRacks}

DoCalculateRackPositionsWithAisle ==
    \E num_racks \in AisleNumRacks, m \in Margins, row_spacing \in RowSpacings,
       aisle_width \in AisleWidths :
        CalculateRackPositionsWithAisle(num_racks, m[1], m[2], m[3], m[4],
                                        row_spacing, aisle_width)

DoCallStrategy ==
    \E strategy \in StrategyNames, num_racks \in NumRacks :
        CallStrategy(strategy, num_racks)

NextStrategy ==
    \/ DoCalculateRackPositions
    \/ DoCalculateRackPositionsWithAisle
    \/ DoCallStrategy

SpecStrategy == InitStrategy /\ [][NextStrategy]_vars

(***************************************************************************)
(* SpecCompare: one comparison run, stepped through generate_layout        *)
(***************************************************************************)
\* The run's position is carried in last: i is the index of the layout type
\* being processed, pc the statement of generate_layout about to run
\* ("clear", "generate", "commit", "score", or "done" after the loop),
\* positions the candidates and placed the racks of the current layout,
\* result the results dict built so far.
MaxCompareRacks == 5
\* rooms <<grid_width, grid_length>>: too small for the default margins, one
\* a cell wider, one where only some layouts fit, one where all do
CompareRooms == {<<6, 6>>, <<7, 7>>, <<10, 8>>, <<14, 10>>}
CompareRackCounts == {0, 1, 2, MaxCompareRacks}

InitCompare == \E room \in CompareRooms : InitGrid(room[1], room[2])

\* pillars in the corners before the run
ComparePillars ==
    /\ last.op = "init"
    /\ PlacePillarsByCount(600, 600, 2, 2)
    /\ UNCHANGED steps

\* a generate_layout call with its own parameters before the run
CompareEarlier ==
    /\ last.op \in {"init", "place_pillars_by_count"}
    /\ \E i \in 1 .. Len(LayoutTypes), num_racks \in CompareRackCounts :
         GenerateLayout(LayoutTypes[i], num_racks, 2)
    /\ UNCHANGED steps

\* compare_layouts entered: results = {} and the loop starts
CompareBegin ==
    /\ last.op \in {"init", "place_pillars_by_count", "generate_layout"}
    /\ \E num_racks \in CompareRackCounts :
         last' = [op |-> "compare_layouts", args |-> <<num_racks>>,
                  result |-> <<>>, raised |-> FALSE, pc |-> "clear", i |-> 1,
                  positions |-> <<>>, placed |-> <<>>]
    /\ UNCHANGED <<grid_size_mm, grid_width, grid_length, grid, pillars, racks, walls,
                   layout_metrics, steps>>

\* the position after the current layout type is done with
NextLayout(l, results) ==
    [l EXCEPT !.result = results, !.i = l.i + 1,
              !.pc = IF l.i = Len(LayoutTypes) THEN "done" ELSE "clear",
              !.positions = <<>>, !.placed = <<>>]

\* generate_layout: self._clear_racks()
CompareClear ==
    /\ last.op = "compare_layouts" /\ last.pc = "clear"
    /\ grid' = clear_racks(grid, racks)
    /\ racks' = <<>>
    /\ last' = [last EXCEPT !.pc = "generate"]
    /\ UNCHANGED <<grid_size_mm, grid_width, grid_length, pillars, walls, layout_metrics, steps>>

\* generate_layout: the strategy is called with the default parameters; an
\* exception ends the call and is caught by the loop of compare_layouts
CompareGenerate ==
    /\ last.op = "compare_layouts" /\ last.pc = "generate"
    /\ LET gen == GeneratePositions(LayoutTypes[last.i], last.args[1],
                                    UpdateParams(DefaultParams, <<>>))
       IN  last' = IF gen.raised
                   THEN NextLayout(last, last.result)
                   ELSE [last EXCEPT !.pc = "commit", !.positions = gen.positions]
    /\ UNCHANGED <<grid_size_mm, grid_width, grid_length, grid, pillars, racks, walls,
                   layout_metrics, steps>>

\* generate_layout: placed_racks = self.rack_manager.place_racks(rack_positions)
CompareCommit ==
    /\ last.op = "compare_layouts" /\ last.pc = "commit"
    /\ LET r == place_racks(grid, racks, last.positions)
       IN  /\ grid' = r.grid
           /\ racks' = r.racks
           /\ last' = [last EXCEPT !.pc = "score", !.placed = r.placed]
    /\ UNCHANGED <<grid_size_mm, grid_width, grid_length, pillars, walls, layout_metrics, steps>>

\* generate_layout: self._calculate_metrics(...), then compare_layouts stores
\* the layout's entry in results and goes on with the next layout type
CompareScore ==
    /\ last.op = "compare_layouts" /\ last.pc = "score"
    /\ LET entry == calculate_metrics(LayoutTypes[last.i], last.placed,
                                      UpdateParams(DefaultParams, <<>>))
       IN  /\ layout_metrics' = MetricsSet(layout_metrics, entry)
           /\ last' = NextLayout(last, MetricsSet(last.result, entry))
    /\ UNCHANGED <<grid_size_mm, grid_width, grid_length, grid, pillars, racks, walls, steps>>

\* get_best_layout called after the run with the run's rack count
CompareBest ==
    /\ last.op = "compare_layouts" /\ last.pc = "done"
    /\ \E metric \in Metrics : GetBestLayout(last.args[1], metric)
    /\ UNCHANGED steps

NextCompare ==
    \/ ComparePillars
    \/ CompareEarlier
    \/ CompareBegin
    \/ CompareClear
    \/ CompareGenerate
    \/ CompareCommit
    \/ CompareScore
    \/ CompareBest

SpecCompare == InitCompare /\ [][NextCompare]_vars

(***************************************************************************)
(* SpecPillars: one call of a pillar placement mode on a new grid          *)
(***************************************************************************)
MaxPillarCalls == 1
MaxCountPerAxis == 4
\* rooms <<grid_width, grid_length>>
PillarRooms == {<<7, 3>>, <<6, 5>>, <<5, 4>>, <<4, 3>>}
\* pillar sizes in millimetres: 0, 1 and 2 cells
PillarSizesMm == {200, 600, 1200}
\* spacings in feet: 1, 2 and 3 cells
PillarSpacingsFt == {2, 4, 6}

InitPillars == \E room \in PillarRooms : InitGrid(room[1], room[2])

PillarsWithExactSpacing ==
    /\ Step(MaxPillarCalls)
    /\ \E wmm \in PillarSizesMm, hmm \in PillarSizesMm,
          xft \in PillarSpacingsFt, yft \in PillarSpacingsFt :
         PlacePillarsWithExactSpacing(wmm, hmm, xft, yft)

PillarsByCount ==
    /\ Step(MaxPillarCalls)
    /\ \E wmm \in PillarSizesMm, hmm \in PillarSizesMm,
          nx \in 1 .. MaxCountPerAxis, ny \in 1 .. MaxCountPerAxis :
         PlacePillarsByCount(wmm, hmm, nx, ny)

NextPillars ==
    \/ PillarsWithExactSpacing
    \/ PillarsByCount

SpecPillars == InitPillars /\ [][NextPillars]_vars

(***************************************************************************)
(* SpecConfig: construction of a grid and its coordinate conversions       *)
(***************************************************************************)
\* room sides and cell sizes in millimetres, negative and zero ones included
MaxRoomMm == 4000
MaxCellMm == 2000
RoomSidesMm == {-2000, -500, 0, 1000, 3000, MaxRoomMm}
CellSizesMm == {-1000, 0, 1000, MaxCellMm}
\* coordinates handed to the conversions: before, inside and beyond the room
PointsXMm == {-1500, 0, 500, 1000, 2500, 3500, 9000}
PointsYMm == {-500, 0, 1500, 5000}

\* no grid constructed yet
InitConfig ==
    /\ grid_size_mm = 0
    /\ grid_width = 0
    /\ grid_length = 0
    /\ grid = <<>>
    /\ pillars = <<>>
    /\ racks = <<>>
    /\ walls = <<>>
    /\ layout_metrics = <<>>
    /\ last = [op |-> "init", args |-> <<>>, result |-> <<>>, raised |-> FALSE]
    /\ steps = 0

\* DataCenterGrid(width_m, length_m, grid_size_m)
Configure ==
    /\ last.op = "init"
    /\ \E width_mm \in RoomSidesMm, length_mm \in RoomSidesMm,
          size_mm \in CellSizesMm :
         LET r == DataCenterGrid(width_mm, length_mm, size_mm)
         IN  /\ last' = [op |-> "DataCenterGrid",
                         args |-> <<width_mm, length_mm, size_mm>>,
                         result |-> <<r.grid_width, r.grid_length>>,
                         raised |-> r.raised]
             /\ IF r.raised
                THEN UNCHANGED <<grid_size_mm, grid_width, grid_length, grid>>
                ELSE /\ grid_size_mm' = size_mm
                     /\ grid_width' = r.grid_width
                     /\ grid_length' = r.grid_length
                     /\ grid' = [c \in Cells(r.grid_width, r.grid_length) |-> EMPTY]
    /\ UNCHANGED <<pillars, racks, walls, layout_metrics, steps>>

\* get_grid_coordinates(x_m, y_m) on the constructed grid
GetGridCoordinates ==
    /\ last.op = "DataCenterGrid" /\ ~ last.raised
    /\ \E x_mm \in PointsXMm, y_mm \in PointsYMm :
         last' = [op |-> "get_grid_coordinates", args |-> <<x_mm, y_mm>>,
                  result |-> get_grid_coordinates(x_mm, y_mm), raised |-> FALSE]
    /\ UNCHANGED <<grid_size_mm, grid_width, grid_length, grid, pillars, racks,
                   walls, layout_metrics, steps>>

\* get_real_coordinates(*get_grid_coordinates(x_m, y_m))
RoundTrip ==
    /\ last.op = "DataCenterGrid" /\ ~ last.raised
    /\ \E x_mm \in PointsXMm, y_mm \in PointsYMm :
         LET cell == get_grid_coordinates(x_mm, y_mm)
         IN  last' = [op |-> "round_trip", args |-> <<x_mm, y_mm>>,
                      result |-> get_real_coordinates(cell[1], cell[2]),
                      raised |-> FALSE]
    /\ UNCHANGED <<grid_size_mm, grid_width, grid_length, grid, pillars, racks,
                   walls, layout_metrics, steps>>

NextConfig ==
    \/ Configure
    \/ GetGridCoordinates
    \/ RoundTrip

SpecConfig == InitConfig /\ [][NextConfig]_vars

(***************************************************************************)
(* SpecRings: the ring loops of the perimeter and circular strategies and  *)
(* the loop of compare_layouts, one iteration per step                     *)
(***************************************************************************)
\* The position of a strategy call is carried in last: pc is "loop" while
\* the while statement is about to be evaluated and "done" after the return.
\* The perimeter call carries current_margin, racks_needed and the
\* rack_positions built so far; the circular call carries current_radius,
\* max_radius and racks_placed.  The coordinates of the circular candidates
\* are floating-point products of math.cos and math.sin and are not carried:
\* inside the loop 0 <= current_radius <= max_radius, which is at most the
\* distance from the centre to the nearest wall less one, so the bounds
\* test of every candidate succeeds and racks_placed grows by racks_in_ring.
MaxRingRacks == 40
\* a loop that has emitted this many candidates is not continued
MaxRingCands == 120
RingRooms == {<<5, 3>>, <<6, 6>>, <<9, 7>>, <<16, 12>>}
RingRackCounts == {0, 1, 3, 10, MaxRingRacks}
RingMargins == {0, 1, 3}
RingSpacings == {0, 1, 2}
RingMinRadii == {0, 2, 5}

InitRings == \E room \in RingRooms : InitGrid(room[1], room[2])

RingParams(margin, row_spacing) ==
    UpdateParams(DefaultParams,
                 [top_margin |-> margin, bottom_margin |-> margin,
                  left_margin |-> margin, right_margin |-> margin,
                  row_spacing |-> row_spacing])

\* while racks_needed > 0 and current_margin * 2 < min(available_width, available_height)
perimeter_loop_condition(l) ==
    LET params == l.args[2]
        available_width == grid_width - params.left_margin - params.right_margin
        available_height == grid_length - params.top_margin - params.bottom_margin
    IN  /\ l.racks_needed > 0
        /\ l.current_margin * 2 < Min(available_width, available_height)

\* the ring step without the width of the rack
next_margin_spacing_only(current_margin, params) ==
    current_margin + params.row_spacing

\* current_margin += rack_width + params["row_spacing"]
next_margin(current_margin, params) ==
    current_margin + RACK_WIDTH_CELLS + params.row_spacing

\* one iteration of the while loop of _generate_perimeter_layout
perimeter_ring(l) ==
    LET params == l.args[2]
        available_width == grid_width - params.left_margin - params.right_margin
        available_height == grid_length - params.top_margin - params.bottom_margin
        rack_width == RACK_WIDTH_CELLS
        rack_height == RACK_HEIGHT_CELLS
        ring_width == available_width - 2 * l.current_margin
        ring_height == available_height - 2 * l.current_margin
        side == PyFloorDiv(ring_height, rack_height)
        edge == PyFloorDiv(ring_width - 2 * rack_width, rack_width)
        left_right == Min(2 * side, l.racks_needed)
        needed1 == l.racks_needed - left_right
        top_bottom == IF needed1 > 0 THEN Min(2 * edge, needed1) ELSE 0
        needed2 == IF needed1 > 0 THEN needed1 - top_bottom ELSE needed1
        x0 == params.left_margin + l.current_margin
        y0 == params.bottom_margin + l.current_margin
    IN  [l EXCEPT
           !.racks_needed = needed2,
           !.current_margin = next_margin(l.current_margin, params),
           !.positions = l.positions
               \o [i \in 1 .. Min(side, left_right) |->
                      <<x0, y0 + (i - 1) * rack_height>>]
               \o [i \in 1 .. Min(side, Max(0, left_right - side)) |->
                      <<x0 + ring_width - rack_width, y0 + (i - 1) * rack_height>>]
               \o [i \in 1 .. Min(edge, top_bottom) |->
                      <<x0 + rack_width + (i - 1) * rack_width, y0>>]
               \o [i \in 1 .. Min(edge, Max(0, top_bottom - edge)) |->
                      <<x0 + rack_width + (i - 1) * rack_width,
                        y0 + ring_height - rack_height>>]]

\* _generate_perimeter_layout entered: the loop variables are initialised
PerimeterBegin ==
    /\ last.op = "init"
    /\ \E num_racks \in RingRackCounts, margin \in RingMargins, row_spacing \in RingSpacings :
         last' = [op |-> "perimeter",
                  args |-> <<num_racks, RingParams(margin, row_spacing)>>,
                  result |-> <<>>, raised |-> FALSE, pc |-> "loop",
                  current_margin |-> 0, racks_needed |-> num_racks,
                  positions |-> <<>>]
    /\ UNCHANGED <<grid_size_mm, grid_width, grid_length, grid, pillars, racks, walls,
                   layout_metrics, steps>>

PerimeterRing ==
    /\ last.op = "perimeter" /\ last.pc = "loop"
    /\ perimeter_loop_condition(last)
    /\ Len(last.positions) < MaxRingCands
    /\ last' = perimeter_ring(last)
    /\ UNCHANGED <<grid_size_mm, grid_width, grid_length, grid, pillars, racks, walls,
                   layout_metrics, steps>>

\* return rack_positions[:num_racks]
PerimeterReturn ==
    /\ last.op = "perimeter" /\ last.pc = "loop"
    /\ ~ perimeter_loop_condition(last)
    /\ last' = [last EXCEPT !.pc = "done",
                            !.result = Prefix(last.positions, last.args[1])]
    /\ UNCHANGED <<grid_size_mm, grid_width, grid_length, grid, pillars, racks, walls,
                   layout_metrics, steps>>

\* math.pi in units of 10^-6
PI_E6 == 3141592

\* int(circumference / arc_length) with circumference = 2 * math.pi * radius
\* and an arc length of RACK_WIDTH_CELLS
ring_capacity(current_radius) ==
    PyTrunc(2 * PI_E6 * current_radius, RACK_WIDTH_CELLS * FIXED_POINT)

\* while current_radius <= max_radius and racks_placed < num_racks
circular_loop_condition(l) ==
    /\ l.current_radius <= l.max_radius
    /\ l.racks_placed < l.args[1]

\* generate_circular_layout entered with the default centre
CircularBegin ==
    /\ last.op = "init"
    /\ \E num_racks \in RingRackCounts, min_radius \in RingMinRadii, spacing \in RingSpacings :
         LET center_x == PyFloorDiv(grid_width, 2)
             center_y == PyFloorDiv(grid_length, 2)
             max_radius_x == Min(center_x, grid_width - center_x) - 1
             max_radius_y == Min(center_y, grid_length - center_y) - 1
             max_radius == Min(max_radius_x, max_radius_y)
         IN  last' = [op |-> "circular",
                      args |-> <<num_racks, min_radius, spacing>>,
                      result |-> 0, raised |-> FALSE, pc |-> "loop",
                      max_radius |-> max_radius,
                      current_radius |-> IF min_radius >= max_radius
                                         THEN Max(1, max_radius - 5)
                                         ELSE min_radius,
                      racks_placed |-> 0]
    /\ UNCHANGED <<grid_size_mm, grid_width, grid_length, grid, pillars, racks, walls,
                   layout_metrics, steps>>

\* one iteration of the while loop of generate_circular_layout; a ring
\* without capacity leaves the loop
CircularRing ==
    /\ last.op = "circular" /\ last.pc = "loop"
    /\ circular_loop_condition(last)
    /\ LET racks_in_ring == Min(ring_capacity(last.current_radius),
                                last.args[1] - last.racks_placed)
       IN  last' = IF racks_in_ring <= 0
                   THEN [last EXCEPT !.pc = "done", !.result = last.racks_placed]
                   ELSE [last EXCEPT
                           !.racks_placed = last.racks_placed + racks_in_ring,
                           !.current_radius =
                               last.current_radius + RACK_WIDTH_CELLS + last.args[3]]
    /\ UNCHANGED <<grid_size_mm, grid_width, grid_length, grid, pillars, racks, walls,
                   layout_metrics, steps>>

\* return rack_positions[:num_racks]; the result carried is its length
CircularReturn ==
    /\ last.op = "circular" /\ last.pc = "loop"
    /\ ~ circular_loop_condition(last)
    /\ last' = [last EXCEPT !.pc = "done",
                            !.result = Min(last.racks_placed, last.args[1])]
    /\ UNCHANGED <<grid_size_mm, grid_width, grid_length, grid, pillars, racks, walls,
                   layout_metrics, steps>>

NextRings ==
    \/ PerimeterBegin
    \/ PerimeterRing
    \/ PerimeterReturn
    \/ CircularBegin
    \/ CircularRing
    \/ CircularReturn
    \/ CompareBegin
    \/ CompareClear
    \/ CompareGenerate
    \/ CompareCommit
    \/ CompareScore
    \/ CompareBest

\* the program is single-threaded and synchronous: a call that has been
\* entered executes its next statement; entering a call is up to the caller
SpecRings ==
    /\ InitRings /\ [][NextRings]_vars
    /\ WF_vars(PerimeterRing) /\ WF_vars(PerimeterReturn)
    /\ WF_vars(CircularRing) /\ WF_vars(CircularReturn)
    /\ WF_vars(CompareClear) /\ WF_vars(CompareGenerate)
    /\ WF_vars(CompareCommit) /\ WF_vars(CompareScore)

(***************************************************************************)
(* Properties                                                              *)
(***************************************************************************)
ElementFootprint(e) == Footprint(e.grid_x, e.grid_y, e.width_cells, e.height_cells)
Elements == pillars \o racks \o walls
AllCells == Cells(grid_width, grid_length)

\* C1: any two distinct elements held in the pillar, rack and wall lists
\* have footprints that do not intersect.
C1_FootprintsDisjoint ==
    \A i, j \in 1 .. Len(Elements) :
        i # j => ElementFootprint(Elements[i]) \cap ElementFootprint(Elements[j]) = {}

\* a rack commit next to listed pillars in which a candidate was turned down
C1_Witness ==
    /\ last.op = "place_racks"
    /\ pillars # <<>>
    /\ last.result # <<>>
    /\ Len(last.result) < Len(last.args)

\* C2: the occupancy array and the element lists agree: a cell holds PILLAR
\* iff it lies in a listed pillar's footprint, RACK iff it lies in a listed
\* rack's footprint, and every other cell is EMPTY.
C2_OccupancyAgreesWithLists ==
    \A c \in AllCells :
        /\ grid[c] = PILLAR <=>
               \E i \in 1 .. Len(pillars) : c \in ElementFootprint(pillars[i])
        /\ grid[c] = RACK <=>
               \E i \in 1 .. Len(racks) : c \in ElementFootprint(racks[i])
        /\ grid[c] \notin {PILLAR, RACK} => grid[c] = EMPTY

\* C5: after _clear_racks no cell holds RACK and the rack list is empty.
C5_ClearLeavesNoRack ==
    last.op = "clear_racks" =>
        /\ racks = <<>>
        /\ \A c \in AllCells : grid[c] # RACK

\* C6: _clear_racks, generate_layout and compare_layouts leave every PILLAR
\* and WALL cell as it was and do not change the pillar and wall lists.
C6_PillarsUntouched ==
    [][last'.op \in {"clear_racks", "generate_layout", "compare_layouts"} =>
          /\ pillars' = pillars
          /\ walls' = walls
          /\ \A c \in AllCells :
                 grid[c] \in {PILLAR, WALL} => grid'[c] = grid[c]]_vars

\* a comparison run in a room with pillars, whose layouts placed racks that
\* the following layout had to clear
C6_Witness ==
    /\ last.op = "compare_layouts"
    /\ pillars # <<>>
    /\ \E c \in AllCells : grid[c] = PILLAR
    /\ \E i \in 1 .. Len(layout_metrics) : layout_metrics[i].racks_placed > 0

\* the contract of one place_element(x, y, w, h, t) call that returned
\* "returned", between the occupancy before and after it
AtomicCheckAndSet(x, y, w, h, t, returned) ==
    LET inside == x >= 0 /\ y >= 0 /\ x + w <= grid_width /\ y + h <= grid_length
        rect == {c \in AllCells : /\ x <= c[1] /\ c[1] < x + w
                                  /\ y <= c[2] /\ c[2] < y + h}
    IN  IF ~ inside \/ \E c \in rect : grid[c] # EMPTY
        THEN returned = NoElement /\ grid' = grid
        ELSE /\ \A c \in AllCells : grid'[c] = IF c \in rect THEN t ELSE grid[c]
             /\ returned = [grid_x |-> x, grid_y |-> y, width_cells |-> w,
                            height_cells |-> h, type |-> t]

\* the element a one-candidate place_racks call got from place_element
SingleRackReturned(result) ==
    IF result = <<>> THEN NoElement
    ELSE [grid_x |-> result[1].grid_x, grid_y |-> result[1].grid_y,
          width_cells |-> result[1].width_cells,
          height_cells |-> result[1].height_cells, type |-> result[1].type]

\* C3: place_element is an atomic check-and-set: a rectangle out of bounds
\* or over a non-EMPTY cell returns None and leaves the occupancy array as
\* it was; otherwise exactly the rectangle's cells are set to the type,
\* every other cell is unchanged, and the element record is returned.
C3_PlaceElementAtomic ==
    [][/\ last'.op = "place_pillar" =>
            AtomicCheckAndSet(last'.args[1], last'.args[2], last'.args[3],
                              last'.args[4], PILLAR, last'.result)
       /\ last'.op = "place_racks" /\ Len(last'.args) = 1 =>
            AtomicCheckAndSet(last'.args[1][1], last'.args[1][2],
                              RACK_WIDTH_CELLS, RACK_HEIGHT_CELLS, RACK,
                              SingleRackReturned(last'.result))]_vars

\* a placement turned down in a room that already holds a committed pillar
C3_Witness ==
    /\ last.op = "place_pillar"
    /\ last.result = NoElement
    /\ last.args[1] >= 0
    /\ last.args[3] > 0 /\ last.args[4] > 0
    /\ pillars # <<>>
    /\ \E c \in AllCells : grid[c] = PILLAR

\* C4: for every element committed through place_element, is_area_empty over
\* its footprint is true before the commit and false after it, so the
\* identical placement returns None the second time.
C4_EmptyBeforeOccupiedAfter ==
    [][last'.op = "place_pillar" /\ last'.result # NoElement =>
          /\ is_area_empty(grid, last'.args[1], last'.args[2],
                           last'.args[3], last'.args[4])
          /\ ~ is_area_empty(grid', last'.args[1], last'.args[2],
                             last'.args[3], last'.args[4])
          /\ place_element(grid', last'.args[1], last'.args[2], last'.args[3],
                           last'.args[4], PILLAR).element = NoElement]_vars

\* C8: place_racks returns exactly the racks it placed, in candidate order:
\* a candidate fails iff its 2x1 footprint is out of bounds or meets a cell
\* occupied when it is tried (occupied before the call, or taken by an
\* earlier placed candidate of the call); the number placed is the number
\* of candidates minus the failures, and nothing is added for a failure.
C8_PlacedExactly ==
    [][last'.op = "place_racks" =>
          LET cands == last'.args
              placed == last'.result
              Placed(i) == \E k \in 1 .. Len(placed) : placed[k].id = i
              FP(i) == Footprint(cands[i][1], cands[i][2],
                                 RACK_WIDTH_CELLS, RACK_HEIGHT_CELLS)
              Fails(i) ==
                  \/ ~ (FP(i) \subseteq AllCells)
                  \/ \E c \in FP(i) \cap AllCells : grid[c] # EMPTY
                  \/ \E j \in 1 .. (i - 1) : Placed(j) /\ FP(j) \cap FP(i) # {}
          IN  /\ \A i \in 1 .. Len(cands) : Placed(i) <=> ~ Fails(i)
              /\ Len(placed) =
                     Len(cands) - Cardinality({i \in 1 .. Len(cands) : Fails(i)})
              /\ \A k \in 1 .. Len(placed) :
                     /\ placed[k].id \in 1 .. Len(cands)
                     /\ placed[k].grid_x = cands[placed[k].id][1]
                     /\ placed[k].grid_y = cands[placed[k].id][2]
                     /\ placed[k].width_cells = RACK_WIDTH_CELLS
                     /\ placed[k].height_cells = RACK_HEIGHT_CELLS
                     /\ placed[k].type = RACK
              /\ \A k1, k2 \in 1 .. Len(placed) :
                     k1 < k2 => placed[k1].id < placed[k2].id
              /\ racks' = racks \o placed
              /\ \A c \in AllCells :
                     grid'[c] = IF \E i \in 1 .. Len(cands) :
                                      Placed(i) /\ c \in FP(i)
                                THEN RACK ELSE grid[c]]_vars

\* a three-candidate commit next to a pillar of which some but not all
\* candidates were placed
C8_Witness ==
    /\ last.op = "place_racks"
    /\ Len(last.args) = MaxPlaceCands
    /\ last.result # <<>>
    /\ Len(last.result) < Len(last.args)
    /\ \E c \in AllCells : grid[c] = PILLAR

\* C9: the racks placed by one place_racks call carry the ids R1, R2, ...,
\* Rk in the order they were placed, also when an earlier candidate failed.
C9_IdsContiguous ==
    last.op = "place_racks" =>
        \A k \in 1 .. Len(last.result) : last.result[k].id = k

\* C7: every strategy, on every grid size and for every requested count
\* n >= 0 with default parameters, returns a candidate list of length at
\* most n.
C7_StrategyReturnsAtMostN ==
    last.op = "strategy" =>
        /\ ~ last.raised
        /\ Len(last.result) <= last.args[2]

\* C10: calculate_rack_positions returns exactly min(n, capacity * R)
\* candidates, capacity = floor(available_width / 2) and R the number of
\* rows of height 1, separated by row_spacing, that fit in the available
\* height with no spacing after the last one; the k-th candidate (0-based)
\* is at x = left_margin + (k mod capacity) * 2,
\* y = bottom_margin + (k div capacity) * (1 + row_spacing).
C10_RowCandidates ==
    last.op = "calculate_rack_positions" =>
        LET n == last.args[1]
            top == last.args[2]
            bottom == last.args[3]
            left == last.args[4]
            right == last.args[5]
            spacing == last.args[6]
            width == grid_width - left - right
            height == grid_length - top - bottom
            capacity == width \div RACK_WIDTH_CELLS
            R == Cardinality({row \in 0 .. (height - 1) :
                     row * (RACK_HEIGHT_CELLS + spacing) + RACK_HEIGHT_CELLS
                         <= height})
            count == Min(n, capacity * R)
        IN  /\ Len(last.result) = count
            /\ \A k \in 0 .. (count - 1) :
                   last.result[k + 1] =
                       <<left + (k % capacity) * RACK_WIDTH_CELLS,
                         bottom + (k \div capacity) * (RACK_HEIGHT_CELLS + spacing)>>

\* C11: for every n, margins, row spacing and aisle width >= 0, even or odd,
\* calculate_rack_positions_with_aisle leaves aisle_width consecutive columns
\* around the row centre free: every candidate's 2x1 footprint lies entirely
\* left or entirely right of them; with n = 4, width 10, margins 0 and
\* aisle width 2 there are 2 candidates left and 2 right of the 2-cell gap.
C11_CentralAisleKept ==
    last.op = "calculate_rack_positions_with_aisle" =>
        LET n == last.args[1]
            left == last.args[4]
            right == last.args[5]
            aisle == last.args[7]
            centre == left + (grid_width - left - right) \div 2
            LeftOf(a) == {k \in 1 .. Len(last.result) :
                             last.result[k][1] + RACK_WIDTH_CELLS <= a}
            RightOf(a) == {k \in 1 .. Len(last.result) :
                              last.result[k][1] >= a + aisle}
        IN  /\ \E a \in (centre - aisle) .. centre :
                   LeftOf(a) \cup RightOf(a) = 1 .. Len(last.result)
            /\ (n = 4 /\ grid_width = 10 /\ left = 0 /\ right = 0 /\ aisle = 2) =>
                   \E a \in (centre - aisle) .. centre :
                       /\ Cardinality(LeftOf(a)) = 2
                       /\ Cardinality(RightOf(a)) = 2

\* C12: a comparison run processes standard, hot_cold_aisle, diagonal,
\* perimeter, pods in that order, each through Clear, Generate, Commit and
\* Score in that order, and when a layout's Commit begins the grid holds no
\* rack element and no RACK cell left over from an earlier layout.
C12_CommitStartsOnClearedGrid ==
    /\ [](last.op = "compare_layouts" /\ last.pc = "commit" =>
             /\ racks = <<>>
             /\ \A c \in AllCells : grid[c] # RACK)
    /\ [][last.op = "compare_layouts" /\ last'.op = "compare_layouts" =>
             \/ /\ last.pc = "clear" /\ last'.pc = "generate"
                /\ last'.i = last.i
             \/ /\ last.pc = "generate" /\ last'.pc = "commit"
                /\ last'.i = last.i
             \/ /\ last.pc = "commit" /\ last'.pc = "score"
                /\ last'.i = last.i
             \/ /\ last.pc \in {"generate", "score"}
                /\ last'.pc = IF last.i = 5 THEN "done" ELSE "clear"
                /\ last'.i = last.i + 1
                /\ last.i \in 1 .. 5
                /\ LayoutTypes[last.i] =
                       <<"standard", "hot_cold_aisle", "diagonal", "perimeter",
                         "pods">>[last.i]]_vars

\* C13: after generate_layout(S, n) has completed, the record stored under S
\* is the one of this run: racks_placed is the number of racks committed in
\* the run, which is the length of the grid's rack list and at most n;
\* space_utilization is the cell area of those racks over
\* grid_width * grid_length; the records of the other layout types are
\* unchanged.
C13_MetricsOfThisRun ==
    [][last'.op = "generate_layout" /\ ~ last'.raised =>
          LET S == last'.args[1]
              n == last'.args[2]
              covered == UNION {ElementFootprint(racks'[k]) : k \in 1 .. Len(racks')}
              fresh == {c \in AllCells : grid'[c] = RACK /\ c \in covered}
          IN  /\ S \in MetricsKeys(layout_metrics')
              /\ MetricsGet(layout_metrics', S).racks_placed = Len(racks')
              /\ Len(racks') <= n
              /\ Cardinality(fresh) =
                     Len(racks') * RACK_WIDTH_CELLS * RACK_HEIGHT_CELLS
              /\ MetricsGet(layout_metrics', S).rack_space
                         * (grid_width * grid_length)
                     = Cardinality(fresh) * MetricsGet(layout_metrics', S).total_space
              /\ MetricsGet(layout_metrics', S).total_space > 0
              /\ Cardinality({i \in 1 .. Len(layout_metrics') :
                                 layout_metrics'[i].layout_type = S}) = 1
              /\ MetricsKeys(layout_metrics') = MetricsKeys(layout_metrics) \cup {S}
              /\ \A T \in MetricsKeys(layout_metrics) \ {S} :
                     MetricsGet(layout_metrics', T) = MetricsGet(layout_metrics, T)]_vars

\* a layout generated again with racks placed, whose earlier record was
\* stored before another layout type's record
C13_Witness ==
    /\ last.op = "generate_layout"
    /\ ~ last.raised
    /\ racks # <<>>
    /\ \E i \in 1 .. (Len(layout_metrics) - 1) :
           layout_metrics[i].layout_type = last.args[1]

\* C14: when a layout type's generate or commit step raises during
\* compare_layouts, the run still processes every other layout type, and
\* the failed one has no entry in the returned results and none in the
\* stored metrics map, also when an earlier generate_layout call had stored
\* a record for it.
C14_FailedStrategyAbsent ==
    (last.op = "compare_layouts" /\ last.pc = "done") =>
        \A i \in 1 .. Len(LayoutTypes) :
            IF GeneratePositions(LayoutTypes[i], last.args[1],
                                 UpdateParams(DefaultParams, <<>>)).raised
            THEN /\ LayoutTypes[i] \notin MetricsKeys(last.result)
                 /\ LayoutTypes[i] \notin MetricsKeys(layout_metrics)
            ELSE /\ LayoutTypes[i] \in MetricsKeys(last.result)
                 /\ LayoutTypes[i] \in MetricsKeys(layout_metrics)

\* the stored value of the metric of entry e, times the common denominator
\* total_space * other.total_space when compared with entry other
Stored(e, other, metric) ==
    IF metric = "space_utilization" THEN e.rack_space * other.total_space
    ELSE e.racks_placed

\* C15: get_best_layout(n, metric) returns a layout type whose stored value
\* of the metric is the maximum over the metrics map, the first such in the
\* map's insertion order, together with that layout type's record.
C15_BestIsFirstMaximum ==
    (last.op = "get_best_layout" /\ layout_metrics # <<>>) =>
        \E i \in 1 .. Len(layout_metrics) :
            /\ last.result[1] = layout_metrics[i].layout_type
            /\ last.result[2] = <<layout_metrics[i]>>
            /\ \A j \in 1 .. Len(layout_metrics) :
                   Stored(layout_metrics[j], layout_metrics[i], last.args[2])
                       <= Stored(layout_metrics[i], layout_metrics[j], last.args[2])
            /\ \A j \in 1 .. (i - 1) :
                   Stored(layout_metrics[j], layout_metrics[i], last.args[2])
                       < Stored(layout_metrics[i], layout_metrics[j], last.args[2])

\* a best layout that placed racks, found behind an entry of lower value
\* and ahead of an entry of the same value
C15_Witness ==
    /\ last.op = "get_best_layout"
    /\ \E i, j, k \in 1 .. Len(layout_metrics) :
           /\ k < i /\ i < j
           /\ last.result[1] = layout_metrics[i].layout_type
           /\ layout_metrics[i].racks_placed > 0
           /\ layout_metrics[j].racks_placed = layout_metrics[i].racks_placed
           /\ layout_metrics[k].racks_placed < layout_metrics[i].racks_placed

\* a layout type that produces no candidate for n racks in this room with
\* the default parameters, or fails while producing them
Infeasible(layout_type, n) ==
    LET gen == GeneratePositions(layout_type, n, UpdateParams(DefaultParams, <<>>))
    IN  gen.raised \/ gen.positions = <<>>

\* C16: when, for the same room and rack count, one layout type is
\* geometrically infeasible and another one places at least one rack,
\* get_best_layout("space_utilization") completes without an exception and
\* selects a layout type that placed racks, never the infeasible one.
C16_BestIsFeasible ==
    [][(/\ last.op = "compare_layouts"
        /\ last'.op = "get_best_layout"
        /\ last'.args[2] = "space_utilization"
        /\ \E i \in 1 .. Len(LayoutTypes) : Infeasible(LayoutTypes[i], last.args[1])
        /\ \E k \in 1 .. Len(last.result) : last.result[k].racks_placed >= 1) =>
          /\ ~ last'.raised
          /\ last'.result[1] # NoLayout
          /\ ~ Infeasible(last'.result[1], last.args[1])
          /\ last'.result[2] # <<>>
          /\ last'.result[2][1].racks_placed >= 1]_vars

C18_PillarModesClearFirst ==
    [][(/\ last'.op \in {"place_pillars_with_exact_spacing",
                         "place_pillars_by_count"}
        /\ ~ last'.raised) =>
          /\ pillars' = last'.result
          /\ \A c \in AllCells :
                 grid'[c] = PILLAR <=>
                     \E k \in 1 .. Len(last'.result) :
                         c \in ElementFootprint(last'.result[k])
          /\ (last.op = last'.op /\ last.args = last'.args) =>
                 last'.result = last.result]_vars

\* the positions <<grid_x, grid_y>> of the pillars in a list
PositionsOf(ps) == {<<ps[k].grid_x, ps[k].grid_y>> : k \in 1 .. Len(ps)}

\* C19: place_pillars_with_exact_spacing derives, for every positive
\* spacing in cells, max(2, floor(roomCells / spacingCells) + 1) candidates
\* along each axis; the first is at index 0, the last at roomCells minus
\* the pillar size and every interior candidate i at i * spacingCells, so
\* that every candidate footprint is inside the grid.
C19_ExactSpacingCandidates ==
    (last.op = "place_pillars_with_exact_spacing" /\ ~ last.raised) =>
        LET pw == MmToCells(last.args[1])
            ph == MmToCells(last.args[2])
            xs == FtToCells(last.args[3])
            ys == FtToCells(last.args[4])
            cands == ExactSpacingPositions(pw, ph, xs, ys)
            nx == Max(2, (grid_width \div xs) + 1)
            ny == Max(2, (grid_length \div ys) + 1)
            X(i) == IF i = 0 THEN 0
                    ELSE IF i = nx - 1 THEN grid_width - pw ELSE i * xs
            Y(i) == IF i = 0 THEN 0
                    ELSE IF i = ny - 1 THEN grid_length - ph ELSE i * ys
        IN  /\ Len(cands) = nx * ny
            /\ {cands[k] : k \in 1 .. Len(cands)} =
                   {<<X(i), Y(j)>> : i \in 0 .. (nx - 1), j \in 0 .. (ny - 1)}
            /\ PositionsOf(last.result) \subseteq {cands[k] : k \in 1 .. Len(cands)}
            /\ \A k \in 1 .. Len(cands) :
                   /\ cands[k][1] >= 0 /\ cands[k][1] + pw <= grid_width
                   /\ cands[k][2] >= 0 /\ cands[k][2] + ph <= grid_length

\* C20: place_pillars_by_count derives the spacing roomCells div (count - 1)
\* per axis, puts the first pillar at index 0 and the last at roomCells
\* minus the pillar size when the count is 2 or more, and centres the
\* single pillar at (roomCells - pillarSize) div 2 when the count is 1.
C20_ByCountCandidates ==
    last.op = "place_pillars_by_count" =>
        LET pw == MmToCells(last.args[1])
            ph == MmToCells(last.args[2])
            nx == last.args[3]
            ny == last.args[4]
            cands == ByCountPositions(pw, ph, nx, ny)
            X(i) == IF nx = 1 THEN (grid_width - pw) \div 2
                    ELSE IF i = 0 THEN 0
                    ELSE IF i = nx - 1 THEN grid_width - pw
                    ELSE i * (grid_width \div (nx - 1))
            Y(i) == IF ny = 1 THEN (grid_length - ph) \div 2
                    ELSE IF i = 0 THEN 0
                    ELSE IF i = ny - 1 THEN grid_length - ph
                    ELSE i * (grid_length \div (ny - 1))
        IN  /\ Len(cands) = nx * ny
            /\ {cands[k] : k \in 1 .. Len(cands)} =
                   {<<X(i), Y(j)>> : i \in 0 .. (nx - 1), j \in 0 .. (ny - 1)}
            /\ PositionsOf(last.result) \subseteq
                   {<<X(i), Y(j)>> : i \in 0 .. (nx - 1), j \in 0 .. (ny - 1)}

\* C21: constructing a grid with a width, a length or a cell size that is
\* zero or negative fails and yields no grid; construction succeeds exactly
\* when all three are positive.
C21_ConfigurationChecked ==
    last.op = "DataCenterGrid" =>
        /\ last.raised <=>
               ~ (last.args[1] > 0 /\ last.args[2] > 0 /\ last.args[3] > 0)
        /\ last.raised => grid_width = 0 /\ grid_length = 0 /\ grid = <<>>

C23_AisleEmissionOrder ==
    last.op = "calculate_rack_positions_with_aisle" =>
        LET res == last.result
            N == Len(res)
            left == last.args[4]
            right == last.args[5]
            aisle == last.args[7]
            centre == left + (grid_width - left - right) \div 2
            cap == (grid_width - left - right - aisle) \div (2 * RACK_WIDTH_CELLS)
            IsLeft(k) == res[k][1] < centre
            RowStart(k) == k = 1 \/ res[k - 1][2] # res[k][2]
            InRow(k) == {j \in 1 .. N : res[j][2] = res[k][2]}
            Lefts(k) == {j \in InRow(k) : IsLeft(j)}
            Rights(k) == {j \in InRow(k) : ~ IsLeft(j)}
        IN  /\ \A k \in 1 .. (N - 1) : res[k][2] <= res[k + 1][2]
            /\ \A k \in 1 .. N :
                   /\ RowStart(k) =>
                          /\ IsLeft(k)
                          /\ res[k][1] + RACK_WIDTH_CELLS = centre - aisle \div 2
                   /\ (k < N /\ res[k + 1][2] = res[k][2]) =>
                          IF IsLeft(k) /\ IsLeft(k + 1)
                          THEN res[k + 1][1] = res[k][1] - RACK_WIDTH_CELLS
                          ELSE IF IsLeft(k)
                          THEN res[k + 1][1] = centre + aisle \div 2
                          ELSE /\ ~ IsLeft(k + 1)
                               /\ res[k + 1][1] = res[k][1] + RACK_WIDTH_CELLS
                   /\ Rights(k) # {} => Cardinality(Lefts(k)) = cap
                   /\ res[k][2] # res[N][2] =>
                          /\ Cardinality(Lefts(k)) = cap
                          /\ Cardinality(Rights(k)) = cap

\* two rows, the first full and the second with a full left half of two
\* candidates and a single right-half candidate
C23_Witness ==
    /\ last.op = "calculate_rack_positions_with_aisle"
    /\ Len(last.result) = 7
    /\ last.result[4][2] # last.result[5][2]
    /\ last.result[5][2] = last.result[7][2]
    /\ last.result[6][1] < last.result[5][1]
    /\ last.result[7][1] > last.result[5][1]

RingOps == {"perimeter", "circular", "compare_layouts"}

\* C24: every strategy call runs to completion: a call of the perimeter
\* strategy, of the circular strategy or of compare_layouts that has been
\* entered eventually returns, for every room, rack count >= 0 and
\* non-negative margins and spacings.
C24_CallsTerminate ==
    (last.op \in RingOps /\ last.pc # "done") ~> (last.op \in RingOps /\ last.pc = "done")

\* a perimeter call that has returned after at least two rings
C24_Witness ==
    /\ last.op = "perimeter" /\ last.pc = "done"
    /\ last.current_margin >= 2 * RACK_WIDTH_CELLS
    /\ Len(last.result) = last.args[1]
    /\ last.args[1] > 0

\* the stepped perimeter loop returns what the strategy returns, and it
\* never reaches the candidate cap
RingsStepwiseAgree ==
    last.op = "perimeter" =>
        /\ Len(last.positions) < MaxRingCands
        /\ last.pc = "done" =>
               last.result = generate_perimeter_layout(last.args[1], last.args[2]).positions

\* the occupancy array of a new grid with the same pillars and walls
WithoutRacks == [c \in AllCells |-> IF grid[c] = RACK THEN EMPTY ELSE grid[c]]

\* C25: history independence of generate_layout: the racks placed by
\* generate_layout(S, n, params) are those the same call places on a new
\* grid with the same dimensions and pillars, whatever layouts were
\* generated on the grid before.
C25_HistoryIndependent ==
    (last.op = "generate_layout" /\ ~ last.raised) =>
        PositionsOf(racks) =
            PositionsOf(place_racks(WithoutRacks, <<>>, last.result).racks)

\* C26: when get_best_layout(n) returns layout B after a comparison run,
\* the racks on the grid are the racks of layout B: the rack list holds as
\* many racks as B's record counts, each at a candidate of B, and the RACK
\* cells are exactly the cells of the listed racks.
C26_GridHoldsBest ==
    (last.op = "get_best_layout" /\ last.result[1] # NoLayout) =>
        LET gen == GeneratePositions(last.result[1], last.args[1],
                                     UpdateParams(DefaultParams, <<>>))
        IN  /\ Len(racks) = last.result[2][1].racks_placed
            /\ PositionsOf(racks) \subseteq
                   {gen.positions[k] : k \in 1 .. Len(gen.positions)}
            /\ \A c \in AllCells :
                   grid[c] = RACK <=>
                       \E i \in 1 .. Len(racks) : c \in ElementFootprint(racks[i])

\* C27: get_best_layout(n, metric) selects among metrics computed for the
\* rack count n and the default parameters of this call: the record it
\* returns counts at most n racks and carries the default parameters.
C27_BestIsOfThisCall ==
    (last.op = "get_best_layout" /\ last.result[1] # NoLayout) =>
        /\ last.result[2][1].racks_placed <= last.args[1]
        /\ last.result[2][1].parameters = UpdateParams(DefaultParams, <<>>)

\* C28: the identifiers of the racks in the grid's rack list are pairwise
\* different after any sequence of place_racks calls, with or without
\* clears in between.
C28_RackIdsUnique ==
    \A i, j \in 1 .. Len(racks) : i # j => racks[i].id # racks[j].id

\* C29: generate_layout with an unknown layout type raises an error and
\* leaves the rack list, the occupancy array and the stored layout metrics
\* as they were.
C29_UnknownTypeChangesNothing ==
    [][(/\ last'.op = "generate_layout"
        /\ \A i \in 1 .. Len(LayoutTypes) : last'.args[1] # LayoutTypes[i]) =>
          /\ last'.raised
          /\ racks' = racks
          /\ grid' = grid
          /\ layout_metrics' = layout_metrics]_vars

\* the strategies that compute their candidates in integer arithmetic
IntegerStrategies ==
    {"row", "aisle", "perimeter", "pod", "spine_leaf", "cluster", "cooling",
     "high_density"}

\* C30: for each integer-arithmetic strategy, every grid size and n, with
\* the default parameters, the 2 x 1 footprint of every emitted candidate
\* lies inside the grid and no two candidates of the list have footprints
\* that intersect.
C30_CandidatesSelfConsistent ==
    (last.op = "strategy" /\ last.args[1] \in IntegerStrategies) =>
        LET res == last.result
            Rack(k) == Footprint(res[k][1], res[k][2],
                                 RACK_WIDTH_CELLS, RACK_HEIGHT_CELLS)
        IN  /\ \A k \in 1 .. Len(res) : Rack(k) \subseteq AllCells
            /\ \A j, k \in 1 .. Len(res) : j # k => Rack(j) \cap Rack(k) = {}

====
